---- MODULE Spec2Model ----
(***************************************************************************)
(* The collection-sync engine of tsdav: smartCollectionSync with its two   *)
(* strategies (webdav sync-collection tokens, basic ctag comparison), the  *)
(* helpers it calls (urlContains, hasFields, findMissingFieldNames,        *)
(* isCollectionDirty, the multistatus mapping of davRequest) and the       *)
(* requests it issues, one action per resumption of the async function.    *)
(* Three further entry points are modelled the same way, each with its     *)
(* own specification over the same variables: syncCalendars                *)
(* (SpecCalendars), createAccount with the three discovery steps           *)
(* (SpecAccount) and the transport, davRequest and the object requests     *)
(* (SpecRequest).                                                          *)
(*                                                                         *)
(* Strings whose characters matter (URLs, hrefs) are sequences of          *)
(* one-character strings; opaque strings (tokens, etags, payloads) are     *)
(* TLA+ strings.                                                           *)
(***************************************************************************)
EXTENDS Integers, Sequences, FiniteSets, TLC

VARIABLES
    pc,          \* position of the invocation (of smartCollectionSync in Spec)
    params,      \* its arguments
    requests,    \* the requests issued so far, in order
    wire,        \* what the server answered to the last request
    result,      \* syncCollection's DAVResponse list (webdav)
    remote,      \* remoteObjects, once fetched
    diff,        \* created / updated / deleted / unchanged, once computed
    dirty,       \* isCollectionDirty's answer (basic)
    returned,    \* the value the promise resolved with
    error,       \* the error the promise rejected with
    children,    \* the promises handed to Promise.all, in order
    newAccount   \* createAccount's account under construction

vars == <<pc, params, requests, wire, result, remote, diff, dirty, returned, error,
          children, newAccount>>

----------------------------------------------------------------------------
(* Bounds of the model.                                                    *)

\* Most objects in collection.objects.
MaxLocal == 2
\* Most items one invocation handles: local objects, <response> elements of
\* the sync-collection answer and objects a hook returns share this budget.
MaxTotal == 3
\* Latest reading of the clock, and latest expiration of an access token.
MaxClock == 2
\* Longest URL string handed to urlContains.
MaxUrlLen == 3

----------------------------------------------------------------------------
(* JavaScript values.                                                      *)

\* undefined, for fields held as TLA+ strings
Undefined == "undefined"
\* undefined, for fields held as character sequences (href, url)
NoHref == <<"undefined">>
\* an absent optional value is the empty sequence, a present one <<v>>
None == << >>
Some(v) == <<v>>
\* the empty string ''
Empty == << >>

\* A value the XML decoder may have coerced: <<type, text>>.
JsString(s) == <<"string", s>>
JsNumber(s) == <<"number", s>>
JsUndefined == <<"undefined", "">>

\* value?.toString(): a number prints as its digits, undefined stays undefined
ToStringOpt(v) == IF v = JsUndefined THEN JsUndefined ELSE JsString(v[2])

RECURSIVE SeqsUpTo(_, _)
\* all sequences over S of length at most n
SeqsUpTo(S, n) ==
    IF n = 0 THEN { << >> }
    ELSE LET shorter == SeqsUpTo(S, n - 1)
         IN  shorter \cup { Append(s, x) : s \in { t \in shorter : Len(t) = n - 1 }, x \in S }

\* Array.prototype.filter is SelectSeq; Array.prototype.map is written
\* [i \in 1..Len(s) |-> ...].

\* s.map((r) => r.href)
Hrefs(s) == [i \in 1..Len(s) |-> s[i].href]

Range(s) == { s[i] : i \in 1..Len(s) }

----------------------------------------------------------------------------
(* String operations of the URL helpers.                                   *)

\* String.prototype.includes
Includes(s, t) ==
    \E i \in 0..(Len(s) - Len(t)) : SubSeq(s, i + 1, i + Len(t)) = t

\* String.prototype.trim, for the space character
RECURSIVE TrimLeft(_)
TrimLeft(s) == IF s # << >> /\ Head(s) = " " THEN TrimLeft(Tail(s)) ELSE s
RECURSIVE TrimRight(_)
TrimRight(s) ==
    IF s # << >> /\ s[Len(s)] = " " THEN TrimRight(SubSeq(s, 1, Len(s) - 1)) ELSE s
Trim(s) == TrimRight(TrimLeft(s))

\* s.slice(-1) === '/' ? s.slice(0, -1) : s
StripSlash(s) ==
    IF s # << >> /\ s[Len(s)] = "/" THEN SubSeq(s, 1, Len(s) - 1) ELSE s

\* s.slice(-4)
SliceLast4(s) == IF Len(s) <= 4 THEN s ELSE SubSeq(s, Len(s) - 3, Len(s))

\* a falsy string: undefined or ''
Falsy(s) == s = NoHref \/ s = Empty

\* the test in one direction only
urlContains_oneWay(urlA, urlB) ==
    IF Falsy(urlA) /\ Falsy(urlB) THEN TRUE
    ELSE IF Falsy(urlA) \/ Falsy(urlB) THEN FALSE
    ELSE Includes(urlA, StripSlash(Trim(urlB)))

urlContains(urlA, urlB) ==
    IF Falsy(urlA) /\ Falsy(urlB) THEN TRUE
    ELSE IF Falsy(urlA) \/ Falsy(urlB) THEN FALSE
    ELSE LET strippedUrlA == StripSlash(Trim(urlA))
             strippedUrlB == StripSlash(Trim(urlB))
         IN  Includes(urlA, strippedUrlB) \/ Includes(urlB, strippedUrlA)

----------------------------------------------------------------------------
(* The values the model draws inputs and answers from.                     *)

UrlP == <<"/", "1", ".", "i", "c", "s">>
\* the same path as an absolute URL on host h, and on another host g
UrlH == <<"h">> \o UrlP
UrlG == <<"g">> \o UrlP
UrlV == <<"/", "1", ".", "v", "c", "f">>
CollUrl == <<"/", "c", "/">>
OtherCollUrl == <<"/", "d", "/">>

HomeUrl == "/home/"

\* <status>HTTP/1.1 404 Not Found</status> of a <response>; 0 when the
\* element has no status line of its own
NotFound == 404
NoStatusLine == 0
\* the HTTP status of a multistatus answer, and of a refused request
MultiStatus == 207
Forbidden == 403

LocalObjects ==
    [url : {UrlP, UrlH}, etag : {"a", ""}, data : {"old"}]

\* a <response> of a multiget or of fetchObjects' query
ObjectAnswers ==
    [href : {UrlP, UrlG}, getetag : {"a", "b", ""}, calendarData : {"new"},
     addressData : {Undefined}]

\* a <response> of the sync-collection REPORT
SyncAnswers ==
    [href : {UrlP, UrlV}, statusLine : {NoStatusLine, NotFound}]
        \cup [href : {UrlG, CollUrl}, statusLine : {NoStatusLine}]

\* the body of the sync-collection answer as the transport delivers it
SyncWires(n) ==
    [ok : {TRUE}, status : {MultiStatus}, responses : SeqsUpTo(SyncAnswers, n),
     syncToken : {Undefined, "t2"}]
        \cup [ok : {FALSE}, status : {Forbidden}, responses : {<< >>},
              syncToken : {Undefined}]

\* the PROPFIND answer to isCollectionDirty: at most one <response>
CtagWires ==
    { << >> } \cup
    { <<[href |-> h, getctag |-> c]>> :
        h \in {CollUrl}, c \in {JsString("c1"), JsString("c2"), JsNumber("7")} }
    \cup { <<[href |-> OtherCollUrl, getctag |-> JsString("c2")]>> }

NoAccount == [present |-> FALSE, accountType |-> Undefined, homeUrl |-> Undefined]
ValidAccounts ==
    [present : {TRUE}, accountType : {"caldav", "carddav"}, homeUrl : {HomeUrl}]
InvalidAccounts ==
    { NoAccount,
      [present |-> TRUE, accountType |-> Undefined, homeUrl |-> HomeUrl],
      [present |-> TRUE, accountType |-> "caldav", homeUrl |-> Undefined],
      [present |-> TRUE, accountType |-> Undefined, homeUrl |-> Undefined] }

\* collections as discovery produces them (hooks attached) and as a caller
\* may build them by hand (no hooks)
CollectionShapes ==
    { [url |-> CollUrl, ctag |-> JsString("c1"), syncToken |-> "t1",
       reports |-> <<"syncCollection">>, objectMultiGet |-> TRUE, fetchObjects |-> TRUE],
      [url |-> CollUrl, ctag |-> JsString("c1"), syncToken |-> Undefined,
       reports |-> << >>, objectMultiGet |-> TRUE, fetchObjects |-> TRUE],
      [url |-> CollUrl, ctag |-> JsString("c1"), syncToken |-> "t1",
       reports |-> <<"syncCollection">>, objectMultiGet |-> FALSE, fetchObjects |-> FALSE] }

WithObjects(shape, objs) ==
    [url |-> shape.url, ctag |-> shape.ctag, syncToken |-> shape.syncToken,
     reports |-> shape.reports, objectMultiGet |-> shape.objectMultiGet,
     fetchObjects |-> shape.fetchObjects, objects |-> objs]

Collections ==
    { WithObjects(sh, objs) : sh \in CollectionShapes,
                              objs \in SeqsUpTo(LocalObjects, MaxLocal) }

Methods == {Undefined, "basic", "webdav"}

\* the calls the model starts from; a call with an unusable account is
\* tried with one collection only
Params ==
    [collection : Collections, method : Methods, account : ValidAccounts,
     detailedResult : BOOLEAN]
        \cup [collection : { c \in Collections : c.objects = << >> /\ c.objectMultiGet },
              method : Methods, account : InvalidAccounts, detailedResult : {FALSE}]

----------------------------------------------------------------------------
(* Helpers of the sync engine.                                             *)

\* a falsy field value: undefined or ''
FalsyField(v) == v = Undefined \/ v = ""

\* hasFields with `some` for `every`
hasFields_some(obj, fields) == \E i \in 1..Len(fields) : ~FalsyField(obj[fields[i]])

hasFields(obj, fields) == \A i \in 1..Len(fields) : ~FalsyField(obj[fields[i]])

\* the missing names, in the order of `fields` (the source joins them with ',')
findMissingFieldNames(obj, fields) ==
    SelectSeq(fields, LAMBDA f : FalsyField(obj[f]))

requiredFields == <<"accountType", "homeUrl">>

\* the strategy chosen from the reports alone, the given method ignored
SyncMethod_ignoreMethod(p) ==
    IF \E i \in 1..Len(p.collection.reports) : p.collection.reports[i] = "syncCollection"
    THEN "webdav" ELSE "basic"

\* method ?? (collection.reports?.includes('syncCollection') ? 'webdav' : 'basic')
SyncMethod(p) ==
    IF p.method # Undefined THEN p.method
    ELSE IF \E i \in 1..Len(p.collection.reports) :
                p.collection.reports[i] = "syncCollection"
         THEN "webdav" ELSE "basic"

\* account.accountType === 'caldav' ? '.ics' : '.vcf'
extName(account) ==
    IF account.accountType = "caldav" THEN <<".", "i", "c", "s">>
    ELSE <<".", "v", "c", "f">>

\* davRequest's mapping of the answer to DAVResponses: one synthetic entry
\* for a refused request, one entry without raw for a multistatus with no
\* <response>, otherwise one entry per <response>, each carrying the whole
\* decoded tree (and so multistatus.syncToken) as raw
davRequest(url, w) ==
    IF ~w.ok
    THEN << [href |-> url, status |-> w.status, ok |-> w.ok,
             raw |-> [kind |-> "text", syncToken |-> Undefined]] >>
    ELSE IF w.responses = << >>
    THEN << [href |-> NoHref, status |-> w.status, ok |-> w.ok,
             raw |-> [kind |-> "none", syncToken |-> Undefined]] >>
    ELSE [i \in 1..Len(w.responses) |->
             [href |-> w.responses[i].href,
              status |-> IF w.responses[i].statusLine # NoStatusLine
                         THEN w.responses[i].statusLine ELSE w.status,
              ok |-> TRUE,
              raw |-> [kind |-> "tree", syncToken |-> w.syncToken]]]

\* the filter without the suffix test
objectResponses_noSuffix(res, account) == SelectSeq(res, LAMBDA r : r.href # NoHref)

\* result.filter((r) => r.href?.slice(-4) === extName)
objectResponses(res, account) ==
    SelectSeq(res, LAMBDA r : r.href # NoHref /\ SliceLast4(r.href) = extName(account))

\* changed hrefs without the status test
changedObjectUrls_all(res, account) == Hrefs(objectResponses(res, account))

changedObjectUrls(res, account) ==
    Hrefs(SelectSeq(objectResponses(res, account), LAMBDA o : o.status # NotFound))

deletedObjectUrls(res, account) ==
    Hrefs(SelectSeq(objectResponses(res, account), LAMBDA o : o.status = NotFound))

\* multiGetObjectResponse.map(...): url, etag and the payload of the
\* account's type
remoteObjects(answers, account) ==
    [i \in 1..Len(answers) |->
        [url |-> IF answers[i].href = NoHref THEN Empty ELSE answers[i].href,
         etag |-> answers[i].getetag,
         data |-> IF account.accountType = "caldav" THEN answers[i].calendarData
                  ELSE answers[i].addressData]]

\* created with `some` for `every`
created_some(localObjects, remoteObjs) ==
    SelectSeq(remoteObjs, LAMBDA o :
        \E i \in 1..Len(localObjects) : ~urlContains(localObjects[i].url, o.url))

\* remoteObjects.filter((o) => localObjects.every((lo) => !urlContains(lo.url, o.url)))
created(localObjects, remoteObjs) ==
    SelectSeq(remoteObjs, LAMBDA o :
        \A i \in 1..Len(localObjects) : ~urlContains(localObjects[i].url, o.url))

\* remoteObjects.find((ro) => urlContains(ro.url, curr.url)), as None or Some
found(remoteObjs, curr) ==
    LET hits == { i \in 1..Len(remoteObjs) : urlContains(remoteObjs[i].url, curr.url) }
    IN  IF hits = {} THEN None
        ELSE Some(remoteObjs[CHOOSE i \in hits : \A j \in hits : i <= j])

\* the update test without `found.etag &&`
isUpdate_noEtagCheck(f, curr) == f # None /\ f[1].etag # curr.etag

\* if (found && found.etag && found.etag !== curr.etag)
isUpdate(f, curr) == f # None /\ ~FalsyField(f[1].etag) /\ f[1].etag # curr.etag

RECURSIVE updated(_, _)
\* localObjects.reduce((prev, curr) => ..., [])
updated(localObjects, remoteObjs) ==
    IF localObjects = << >> THEN << >>
    ELSE LET n == Len(localObjects)
             prev == updated(SubSeq(localObjects, 1, n - 1), remoteObjs)
             curr == localObjects[n]
             f == found(remoteObjs, curr)
         IN  IF isUpdate(f, curr) THEN Append(prev, f[1]) ELSE prev

\* webdav: deletedObjectUrls.map((o) => ({ url: o, etag: '' }))
deletedWebdav(urls) == [i \in 1..Len(urls) |-> [url |-> urls[i], etag |-> ""]]

\* basic: localObjects.filter((cal) => remoteObjects.every((ro) => !urlContains(ro.url, cal.url)))
deletedBasic(localObjects, remoteObjs) ==
    SelectSeq(localObjects, LAMBDA cal :
        \A i \in 1..Len(remoteObjs) : ~urlContains(remoteObjs[i].url, cal.url))

\* localObjects.filter((lo) => remoteObjects.some((ro) => urlContains(lo.url, ro.url) && ro.etag === lo.etag))
unchanged(localObjects, remoteObjs) ==
    SelectSeq(localObjects, LAMBDA lo :
        \E i \in 1..Len(remoteObjs) :
            urlContains(lo.url, remoteObjs[i].url) /\ remoteObjs[i].etag = lo.etag)

\* the objects field of a returned collection: the list, or the detailed diff
ObjectList(l) ==
    [detailed |-> FALSE, list |-> l, created |-> << >>, updated |-> << >>, deleted |-> << >>]
ObjectDiff(c, u, d) ==
    [detailed |-> TRUE, list |-> << >>, created |-> c, updated |-> u, deleted |-> d]

\* detailedResult ? { created, updated, deleted } : [...unchanged, ...created, ...updated]
resultObjects(detailedResult, d) ==
    IF detailedResult THEN ObjectDiff(d.created, d.updated, d.deleted)
    ELSE ObjectList(d.unchanged \o d.created \o d.updated)

\* the input collection as the caller sees it returned
sameCollection(c) == [c EXCEPT !.objects = ObjectList(c.objects)]

\* result[0]?.raw?.multistatus?.syncToken ?? collection.syncToken
newSyncToken(res, collection) ==
    IF res # << >> /\ res[1].raw.syncToken # Undefined THEN res[1].raw.syncToken
    ELSE collection.syncToken

\* the first response, whatever its href
ctagResponse_first(collection, responses) ==
    IF responses = << >> THEN None ELSE Some(responses[1])

\* isCollectionDirty: the first response whose href matches the collection
\* url, None when there is none; isDirty and newCtag from its getctag
ctagResponse(collection, responses) ==
    LET hits == SelectSeq(responses, LAMBDA r : urlContains(collection.url, r.href))
    IN  IF hits = << >> THEN None ELSE Some(hits[1])

isCollectionDirty(collection, res) ==
    [isDirty |-> collection.ctag # res.getctag, newCtag |-> ToStringOpt(res.getctag)]

----------------------------------------------------------------------------
(* smartCollectionSync, one action per resumption.                         *)

Init ==
    /\ pc = "called"
    /\ params \in Params
    /\ requests = << >>
    /\ wire = None
    /\ result = << >>
    /\ remote = None
    /\ diff = None
    /\ dirty = None
    /\ returned = None
    /\ error = None
    /\ children = << >>
    /\ newAccount = None

collection == params.collection
account == params.account
localObjects == collection.objects

accountUsable == account.present /\ hasFields(account, requiredFields)

\* items still free in the budget
Room == MaxTotal - Len(localObjects)
    - (IF wire # None /\ pc = "awaitMultiGet" THEN Len(wire[1].responses) ELSE 0)

\* the hooks return DAVObjects: what remoteObjects makes of a caldav multiget
FetchedObjects == { remoteObjects(<<a>>, [accountType |-> "caldav"])[1] : a \in ObjectAnswers }

\* The account check throws before anything is sent.
RejectAccount ==
    /\ pc = "called"
    /\ ~accountUsable
    /\ error' = Some(IF ~account.present
                     THEN [message |-> "no account for smartCollectionSync",
                           fields |-> << >>]
                     ELSE [message |-> "account must have fields before smartCollectionSync",
                           fields |-> findMissingFieldNames(account, requiredFields)])
    /\ pc' = "failed"
    /\ UNCHANGED <<params, requests, wire, result, remote, diff, dirty, returned, children, newAccount>>

\* webdav: the sync-collection REPORT goes out with the collection's token.
StartWebdav ==
    /\ pc = "called"
    /\ accountUsable
    /\ SyncMethod(params) = "webdav"
    /\ requests' = Append(requests,
                     [op |-> "syncCollection", url |-> collection.url,
                      syncToken |-> collection.syncToken, objectUrls |-> << >>])
    /\ pc' = "awaitSyncCollection"
    /\ UNCHANGED <<params, wire, result, remote, diff, dirty, returned, error, children, newAccount>>

\* basic: isCollectionDirty's PROPFIND goes out.
StartBasic ==
    /\ pc = "called"
    /\ accountUsable
    /\ SyncMethod(params) = "basic"
    /\ requests' = Append(requests,
                     [op |-> "isCollectionDirty", url |-> collection.url,
                      syncToken |-> Undefined, objectUrls |-> << >>])
    /\ pc' = "awaitIsDirty"
    /\ UNCHANGED <<params, wire, result, remote, diff, dirty, returned, error, children, newAccount>>

\* the fields written into the input collection itself
afterSpread_inPlace(coll, value) == value

\* { ...collection, objects, syncToken | ctag }: the fields are written into
\* a fresh object; this is what the input collection holds afterwards
afterSpread(coll, value) == coll

\* the diff of the webdav branch and the collection it returns
webdavDiff(coll, acct, res, remoteObjs) ==
    [created |-> created(coll.objects, remoteObjs),
     updated |-> updated(coll.objects, remoteObjs),
     deleted |-> deletedWebdav(deletedObjectUrls(res, acct)),
     unchanged |-> unchanged(coll.objects, remoteObjs)]

webdavReturn(coll, detailedResult, res, d) ==
    [coll EXCEPT !.objects = resultObjects(detailedResult, d),
                 !.syncToken = newSyncToken(res, coll)]

\* The sync-collection answer names changed objects and the collection has
\* the hook: objectMultiGet is called with the changed hrefs.
SyncAnsweredMultiGet ==
    /\ pc = "awaitSyncCollection"
    /\ \E w \in SyncWires(Room) :
         LET res == davRequest(collection.url, w)
             urls == changedObjectUrls(res, account)
         IN  /\ urls # << >>
             /\ collection.objectMultiGet
             /\ wire' = Some(w)
             /\ result' = res
             /\ requests' = Append(requests,
                              [op |-> "objectMultiGet", url |-> collection.url,
                               syncToken |-> Undefined, objectUrls |-> urls])
    /\ pc' = "awaitMultiGet"
    /\ UNCHANGED <<params, remote, diff, dirty, returned, error, children, newAccount>>

\* No changed object, or no hook: the diff is taken against no remote
\* objects and the call returns.
SyncAnsweredNoMultiGet ==
    /\ pc = "awaitSyncCollection"
    /\ \E w \in SyncWires(Room) :
         LET res == davRequest(collection.url, w)
             urls == changedObjectUrls(res, account)
             d == webdavDiff(collection, account, res, << >>)
         IN  /\ urls = << >> \/ ~collection.objectMultiGet
             /\ wire' = Some(w)
             /\ result' = res
             /\ remote' = Some(<< >>)
             /\ diff' = Some(d)
             /\ returned' = Some(webdavReturn(collection, params.detailedResult, res, d))
             /\ params' = [params EXCEPT !.collection = afterSpread(collection,
                                   webdavReturn(collection, params.detailedResult, res, d))]
    /\ pc' = "done"
    /\ UNCHANGED <<requests, dirty, error, children, newAccount>>

\* objectMultiGet answered: map, diff, return.
MultiGetAnswered ==
    /\ pc = "awaitMultiGet"
    /\ \E answers \in SeqsUpTo(ObjectAnswers, Room) :
         LET remoteObjs == remoteObjects(answers, account)
             d == webdavDiff(collection, account, result, remoteObjs)
         IN  /\ remote' = Some(remoteObjs)
             /\ diff' = Some(d)
             /\ returned' = Some(webdavReturn(collection, params.detailedResult, result, d))
             /\ params' = [params EXCEPT !.collection = afterSpread(collection,
                                   webdavReturn(collection, params.detailedResult, result, d))]
    /\ pc' = "done"
    /\ UNCHANGED <<requests, wire, result, dirty, error, children, newAccount>>

\* the diff of the basic branch and what it returns
basicDiff(coll, remoteObjs) ==
    [created |-> created(coll.objects, remoteObjs),
     updated |-> updated(coll.objects, remoteObjs),
     deleted |-> deletedBasic(coll.objects, remoteObjs),
     unchanged |-> unchanged(coll.objects, remoteObjs)]

\* the basic return without the isDirty test
basicReturn_alwaysEmit(coll, detailedResult, dty, d) ==
    [coll EXCEPT !.objects = resultObjects(detailedResult, d),
                 !.ctag = dty.newCtag]

basicReturn(coll, detailedResult, dty, d) ==
    IF dty.isDirty
    THEN [coll EXCEPT !.objects = resultObjects(detailedResult, d),
                      !.ctag = dty.newCtag]
    ELSE IF detailedResult
    THEN [coll EXCEPT !.objects = ObjectDiff(<< >>, << >>, << >>)]
    ELSE sameCollection(coll)

\* isCollectionDirty found no response for the collection and throws.
IsDirtyNotFound ==
    /\ pc = "awaitIsDirty"
    /\ \E cw \in CtagWires :
         /\ ctagResponse(collection, cw) = None
         /\ wire' = Some(cw)
    /\ error' = Some([message |-> "Collection does not exist on server", fields |-> << >>])
    /\ pc' = "failed"
    /\ UNCHANGED <<params, requests, result, remote, diff, dirty, returned, children, newAccount>>

\* isCollectionDirty answered and the collection has the fetchObjects hook:
\* it is called whether or not the collection is dirty.
IsDirtyAnsweredFetch ==
    /\ pc = "awaitIsDirty"
    /\ collection.fetchObjects
    /\ \E cw \in CtagWires :
         LET res == ctagResponse(collection, cw)
         IN  /\ res # None
             /\ wire' = Some(cw)
             /\ dirty' = Some(isCollectionDirty(collection, res[1]))
    /\ requests' = Append(requests,
                     [op |-> "fetchObjects", url |-> collection.url,
                      syncToken |-> Undefined, objectUrls |-> << >>])
    /\ pc' = "awaitFetchObjects"
    /\ UNCHANGED <<params, result, remote, diff, returned, error, children, newAccount>>

\* No fetchObjects hook: the remote objects are taken to be none.
IsDirtyAnsweredNoFetch ==
    /\ pc = "awaitIsDirty"
    /\ ~collection.fetchObjects
    /\ \E cw \in CtagWires :
         LET res == ctagResponse(collection, cw)
             dty == isCollectionDirty(collection, res[1])
             d == basicDiff(collection, << >>)
         IN  /\ res # None
             /\ wire' = Some(cw)
             /\ dirty' = Some(dty)
             /\ remote' = Some(<< >>)
             /\ diff' = Some(d)
             /\ returned' = Some(basicReturn(collection, params.detailedResult, dty, d))
             /\ params' = [params EXCEPT !.collection = afterSpread(collection,
                                   basicReturn(collection, params.detailedResult, dty, d))]
    /\ pc' = "done"
    /\ UNCHANGED <<requests, result, error, children, newAccount>>

\* fetchObjects answered: diff, return.
FetchObjectsAnswered ==
    /\ pc = "awaitFetchObjects"
    /\ \E remoteObjs \in SeqsUpTo(FetchedObjects, Room) :
         LET d == basicDiff(collection, remoteObjs)
         IN  /\ remote' = Some(remoteObjs)
             /\ diff' = Some(d)
             /\ returned' = Some(basicReturn(collection, params.detailedResult, dirty[1], d))
             /\ params' = [params EXCEPT !.collection = afterSpread(collection,
                                   basicReturn(collection, params.detailedResult, dirty[1], d))]
    /\ pc' = "done"
    /\ UNCHANGED <<requests, wire, result, dirty, error, children, newAccount>>

Next ==
    \/ RejectAccount
    \/ StartWebdav
    \/ StartBasic
    \/ SyncAnsweredMultiGet
    \/ SyncAnsweredNoMultiGet
    \/ MultiGetAnswered
    \/ IsDirtyNotFound
    \/ IsDirtyAnsweredFetch
    \/ IsDirtyAnsweredNoFetch
    \/ FetchObjectsAnswered

Spec == Init /\ [][Next]_vars

----------------------------------------------------------------------------
(* Vocabulary of the properties.                                           *)

Done == pc = "done"
Webdav == SyncMethod(params) = "webdav"
Basic == SyncMethod(params) = "basic"

UrlsOf(objs) == { objs[i].url : i \in 1..Len(objs) }

\* two sets of URLs share a URL, identity being urlContains
MeetUnderUrlContains(A, B) == \E a \in A, b \in B : urlContains(a, b)

\* every URL of A is, under urlContains, a URL of B
CoveredUnderUrlContains(A, B) == \A a \in A : \E b \in B : urlContains(a, b)

\* the requests of one kind, as positions in the log
RequestsOf(op) == { i \in 1..Len(requests) : requests[i].op = op }

EndsWith(s, suffix) ==
    /\ Len(s) >= Len(suffix)
    /\ SubSeq(s, Len(s) - Len(suffix) + 1, Len(s)) = suffix

\* how often x occurs in the sequence s
Occurrences(s, x) == Cardinality({ i \in 1..Len(s) : s[i] = x })

----------------------------------------------------------------------------
(* C1.  The call repeated on its own result against a server that has not  *)
(* changed: the same request is answered as before, and a sync-collection  *)
(* sent with the token the server just issued is answered with no changes. *)

feedBack(ret) == [ret EXCEPT !.objects = ret.objects.list]

unchangedSyncWire(w, ret) ==
    IF ret.syncToken = collection.syncToken THEN w
    ELSE [ok |-> TRUE, status |-> MultiStatus, responses |-> << >>,
          syncToken |-> ret.syncToken]

webdavAgain ==
    LET c2 == feedBack(returned[1])
        w2 == unchangedSyncWire(wire[1], returned[1])
        res2 == davRequest(c2.url, w2)
        urls2 == changedObjectUrls(res2, account)
        remote2 == IF urls2 # << >> /\ c2.objectMultiGet THEN remote[1] ELSE << >>
    IN  webdavReturn(c2, FALSE, res2, webdavDiff(c2, account, res2, remote2))

basicAgain ==
    LET c2 == feedBack(returned[1])
        res2 == ctagResponse(c2, wire[1])
    IN  basicReturn(c2, FALSE, isCollectionDirty(c2, res2[1]), basicDiff(c2, remote[1]))

SameSyncState(r1, r2) ==
    /\ r2.syncToken = r1.syncToken
    /\ r2.ctag = r1.ctag
    /\ r2.objects = r1.objects

\* C1: a non-detailed sync fed back as the input, the server unchanged,
\* returns the same ctag/syncToken and the same objects list, for both
\* strategies.
C1_Idempotent ==
    (Done /\ ~params.detailedResult) =>
        SameSyncState(returned[1], IF Webdav THEN webdavAgain ELSE basicAgain)

----------------------------------------------------------------------------
(* C2.                                                                     *)

SyncedUrls ==
    UrlsOf(diff[1].unchanged) \cup UrlsOf(diff[1].created) \cup UrlsOf(diff[1].updated)

\* C2: after any sync the URLs of unchanged, created and updated are, under
\* urlContains identity, exactly the URLs of remoteObjects.
C2_SyncedEqualsRemote ==
    Done =>
        /\ CoveredUnderUrlContains(UrlsOf(remote[1]), SyncedUrls)
        /\ CoveredUnderUrlContains(SyncedUrls, UrlsOf(remote[1]))

----------------------------------------------------------------------------
(* C3.                                                                     *)

\* C3 as claimed: created, updated and deleted are pairwise disjoint under
\* urlContains identity, for every snapshot and every answer.
C3_DisjointUnderUrlContains ==
    Done =>
        /\ ~MeetUnderUrlContains(UrlsOf(diff[1].created), UrlsOf(diff[1].updated))
        /\ ~MeetUnderUrlContains(UrlsOf(diff[1].deleted),
                                 UrlsOf(diff[1].created) \cup UrlsOf(diff[1].updated))

\* the hrefs the sync-collection answer reports with status 404 and the
\* account's suffix
GoneHrefs ==
    { result[i].href : i \in { j \in 1..Len(result) :
          /\ result[j].href # NoHref
          /\ EndsWith(result[j].href, extName(account))
          /\ result[j].status = NotFound } }

\* C3 amended: no URL is both created and updated; in the basic strategy no
\* deleted URL matches a created or updated URL under urlContains; in the
\* webdav strategy deleted holds exactly the 404 hrefs, and matches a created
\* or updated URL only if objectMultiGet returned an object at such a href.
C3_Disjoint ==
    Done =>
        /\ UrlsOf(diff[1].created) \cap UrlsOf(diff[1].updated) = {}
        /\ Basic =>
             ~MeetUnderUrlContains(UrlsOf(diff[1].deleted),
                                   UrlsOf(diff[1].created) \cup UrlsOf(diff[1].updated))
        /\ Webdav =>
             /\ UrlsOf(diff[1].deleted) = GoneHrefs
             /\ ~MeetUnderUrlContains(GoneHrefs, UrlsOf(remote[1])) =>
                  ~MeetUnderUrlContains(UrlsOf(diff[1].deleted),
                                        UrlsOf(diff[1].created) \cup UrlsOf(diff[1].updated))

\* a sync whose created and updated URLs differ but match under urlContains
C3_Witness ==
    /\ Done
    /\ diff[1].created # << >>
    /\ diff[1].updated # << >>
    /\ MeetUnderUrlContains(UrlsOf(diff[1].created), UrlsOf(diff[1].updated))

----------------------------------------------------------------------------
(* C4.                                                                     *)

\* the strategy the rule of the specification selects
SelectedStrategy ==
    IF params.method # Undefined THEN params.method
    ELSE IF "syncCollection" \in Range(collection.reports) THEN "webdav"
    ELSE "basic"

StrategyRequests(strategy) ==
    IF strategy = "webdav" THEN {"syncCollection", "objectMultiGet"}
    ELSE {"isCollectionDirty", "fetchObjects"}

\* C4: the strategy is the given method, else webdav iff reports includes
\* syncCollection, else basic; the requests of exactly that strategy are
\* issued.
C4_StrategySelection ==
    (accountUsable /\ pc # "called") =>
        /\ requests # << >>
        /\ \A i \in 1..Len(requests) :
               requests[i].op \in StrategyRequests(SelectedStrategy)

\* method 'basic' given for a collection that supports sync-collection
C4_Witness ==
    /\ Done
    /\ params.method = "basic"
    /\ collection.reports = <<"syncCollection">>
    /\ RequestsOf("fetchObjects") # {}

----------------------------------------------------------------------------
(* C5.                                                                     *)

AccountLacks ==
    { f \in {"accountType", "homeUrl"} : account[f] = Undefined \/ account[f] = "" }

\* C5: without an account, or with one lacking accountType or homeUrl, the
\* call fails with the missing-account / missing-field error and sends no
\* request.
C5_AccountRequired ==
    (~account.present \/ AccountLacks # {}) =>
        /\ requests = << >>
        /\ returned = None
        /\ pc \in {"called", "failed"}
        /\ pc = "failed" =>
             /\ error # None
             /\ IF ~account.present
                THEN error[1].message = "no account for smartCollectionSync"
                ELSE /\ error[1].message = "account must have fields before smartCollectionSync"
                     /\ Range(error[1].fields) = AccountLacks

\* an account with a type but no homeUrl was refused
C5_Witness ==
    /\ pc = "failed"
    /\ account.present
    /\ account.accountType = "caldav"
    /\ account.homeUrl = Undefined
    /\ error[1].fields = <<"homeUrl">>

----------------------------------------------------------------------------
(* C6.                                                                     *)

\* C6: basic strategy, isDirty = false: the input collection comes back
\* unchanged, or with an empty diff in detailed mode, whatever fetchObjects
\* returned.
C6_CleanReturnsInput ==
    (Done /\ Basic /\ ~dirty[1].isDirty) =>
        /\ returned[1].url = collection.url
        /\ returned[1].ctag = collection.ctag
        /\ returned[1].syncToken = collection.syncToken
        /\ returned[1].reports = collection.reports
        /\ returned[1].objects =
             IF params.detailedResult
             THEN [detailed |-> TRUE, list |-> << >>, created |-> << >>,
                   updated |-> << >>, deleted |-> << >>]
             ELSE [detailed |-> FALSE, list |-> collection.objects, created |-> << >>,
                   updated |-> << >>, deleted |-> << >>]

\* a clean collection although fetchObjects returned something new
C6_Witness ==
    /\ Done
    /\ Basic
    /\ ~dirty[1].isDirty
    /\ diff[1].created # << >>
    /\ params.detailedResult

----------------------------------------------------------------------------
(* C7.                                                                     *)

\* C7: webdav strategy: the returned syncToken is the sync-collection
\* answer's multistatus.syncToken, and the input's token when the answer
\* carries none.
C7_TokenFromResponse ==
    (Done /\ Webdav) =>
        returned[1].syncToken =
            IF wire[1].syncToken # Undefined THEN wire[1].syncToken
            ELSE collection.syncToken

----------------------------------------------------------------------------
(* C8.                                                                     *)

Suffix == IF account.accountType = "caldav" THEN <<".", "i", "c", "s">>
          ELSE <<".", "v", "c", "f">>

\* the responses of the sync-collection answer with the account's suffix
\* and with / without status 404, as positions
SuffixedResponses ==
    { i \in 1..Len(result) : result[i].href # NoHref /\ EndsWith(result[i].href, Suffix) }
ChangedResponses == { i \in SuffixedResponses : result[i].status # NotFound }
DeletedResponses == { i \in SuffixedResponses : result[i].status = NotFound }

ResultHrefs == { result[i].href : i \in 1..Len(result) }

\* the hrefs handed to objectMultiGet, when it was called
MultiGetUrls == requests[CHOOSE i \in RequestsOf("objectMultiGet") : TRUE].objectUrls

\* C8: each response with the suffix lands in exactly one of changed (status
\* not 404) and deleted (status 404), the others in neither: changed and
\* deleted hold each href as often as such responses carry it.
C8_Partition ==
    (Webdav /\ wire # None) =>
        /\ RequestsOf("objectMultiGet") # {} =>
             \A h \in ResultHrefs \cup Range(MultiGetUrls) :
                 Occurrences(MultiGetUrls, h) =
                     Cardinality({ i \in ChangedResponses : result[i].href = h })
        /\ (RequestsOf("objectMultiGet") = {} /\ collection.objectMultiGet) =>
             ChangedResponses = {}
        /\ Done =>
             /\ \A d \in Range(diff[1].deleted) : d.etag = ""
             /\ \A h \in ResultHrefs \cup UrlsOf(diff[1].deleted) :
                    Occurrences(diff[1].deleted, [url |-> h, etag |-> ""]) =
                        Cardinality({ i \in DeletedResponses : result[i].href = h })

\* an answer with a changed href, a deleted href and one without the suffix
C8_Witness ==
    /\ Done
    /\ Webdav
    /\ ChangedResponses # {}
    /\ DeletedResponses # {}
    /\ SuffixedResponses # 1..Len(result)
    /\ RequestsOf("objectMultiGet") # {}

----------------------------------------------------------------------------
(* C9.                                                                     *)

\* the changed hrefs, in the order of the answer
RECURSIVE HrefsAt(_, _)
HrefsAt(I, n) ==
    IF n = 0 THEN << >>
    ELSE IF n \in I THEN Append(HrefsAt(I, n - 1), result[n].href)
         ELSE HrefsAt(I, n - 1)
ChangedHrefs == HrefsAt(ChangedResponses, Len(result))

\* the order of the steps of one webdav sync
WebdavStepsInOrder(multiGetExpected) ==
    /\ Cardinality(RequestsOf("objectMultiGet")) <= 1
    /\ \A i \in RequestsOf("objectMultiGet") :
           /\ i = 2
           /\ requests[1].op = "syncCollection"
           /\ wire # None
           /\ requests[i].objectUrls = ChangedHrefs
    /\ wire # None => (RequestsOf("objectMultiGet") # {} <=> multiGetExpected)
    /\ pc = "awaitMultiGet" => (remote = None /\ diff = None /\ returned = None)
    /\ diff # None => (pc = "done" /\ remote # None)

\* C9 as claimed: objectMultiGet is called only after the sync-collection
\* answer, at most once, iff a changed href exists, with exactly the changed
\* hrefs; the diff is computed only after it has completed.
C9_Sequential == Webdav => WebdavStepsInOrder(ChangedHrefs # << >>)

\* C9 amended: ... iff a changed href exists and the collection has an
\* objectMultiGet hook ...
C9_SequentialWithHook ==
    Webdav => WebdavStepsInOrder(ChangedHrefs # << >> /\ collection.objectMultiGet)

\* a sync that fetched two changed objects and then returned
C9_Witness ==
    /\ Done
    /\ Webdav
    /\ RequestsOf("objectMultiGet") # {}
    /\ Len(ChangedHrefs) = 2
    /\ remote[1] # << >>

----------------------------------------------------------------------------
(* C10.                                                                    *)

\* remote objects that some local object matches with another, non-empty etag
RemoteWithOtherEtag ==
    { r \in Range(remote[1]) :
        \E lo \in Range(localObjects) :
            urlContains(r.url, lo.url) /\ r.etag # "" /\ r.etag # lo.etag }

\* the first remote object, in the order fetched, that matches a local one
FirstMatch(lo) ==
    LET hits == { i \in 1..Len(remote[1]) : urlContains(remote[1][i].url, lo.url) }
    IN  remote[1][CHOOSE i \in hits : \A j \in hits : i <= j]

FirstMatchWithOtherEtag ==
    { FirstMatch(lo) : lo \in { l \in Range(localObjects) :
        /\ \E r \in Range(remote[1]) : urlContains(r.url, l.url)
        /\ FirstMatch(l).etag # ""
        /\ FirstMatch(l).etag # l.etag } }

\* C10 as claimed: updated holds exactly the remote objects that some local
\* object matches under urlContains with a different, non-empty etag.
C10_UpdatedExactly == Done => Range(diff[1].updated) = RemoteWithOtherEtag

\* C10 amended: updated holds exactly the remote objects that are the first
\* remote match of some local object and whose etag is non-empty and differs
\* from that local object's; they are remote values with non-empty etags.
C10_UpdatedFirstMatch ==
    Done =>
        /\ Range(diff[1].updated) = FirstMatchWithOtherEtag
        /\ Range(diff[1].updated) \subseteq RemoteWithOtherEtag

\* an update found, and a remote object with another etag that an earlier
\* match of the same local object hides
C10_Witness ==
    /\ Done
    /\ diff[1].updated # << >>
    /\ RemoteWithOtherEtag # Range(diff[1].updated)

----------------------------------------------------------------------------
(* syncCalendars: the account's calendars against a fresh fetchCalendars,  *)
(* one smartCollectionSync per changed calendar under Promise.all.         *)

CalA == <<"h", "/", "a", "/">>
CalB == <<"h", "/", "b", "/">>
RootUrl == "h/"

\* calendars the caller holds from an earlier fetch
LocalCalendars ==
    [url : {CalA, CalB}, ctag : {JsString("c1")}, syncToken : {"t1"},
     objects : {ObjectList(<< >>)}]

\* calendars as fetchCalendars maps them: the same token and ctag, a new
\* token, a new ctag from a server without sync-token, neither new
RemoteCalendars ==
    { [url |-> u, ctag |-> tc[2], syncToken |-> tc[1], objects |-> ObjectList(<< >>)] :
        u \in {CalA, CalB},
        tc \in { <<"t1", JsString("c1")>>, <<"t2", JsString("c1")>>,
                 <<Undefined, JsString("c2")>>, <<Undefined, JsString("c1")>> } }

SyncAccounts ==
    { [present |-> FALSE, accountType |-> Undefined, homeUrl |-> Undefined,
       rootUrl |-> Undefined],
      [present |-> TRUE, accountType |-> "caldav", homeUrl |-> HomeUrl,
       rootUrl |-> RootUrl],
      [present |-> TRUE, accountType |-> Undefined, homeUrl |-> HomeUrl,
       rootUrl |-> RootUrl],
      [present |-> TRUE, accountType |-> "caldav", homeUrl |-> Undefined,
       rootUrl |-> RootUrl] }

\* most calendars one invocation handles, local and remote together
MaxCalendars == MaxTotal + 1

\* oldCalendars and account.calendars are optional
SyncCalendarsParams ==
    [oldCalendars : { Some(l) : l \in SeqsUpTo(LocalCalendars, MaxLocal) },
     accountCalendars : {None}, account : SyncAccounts, detailedResult : BOOLEAN]
        \cup [oldCalendars : {None},
              accountCalendars : {None, Some(<<[url |-> CalA, ctag |-> JsString("c1"),
                                                syncToken |-> "t1",
                                                objects |-> ObjectList(<< >>)]>>)},
              account : SyncAccounts, detailedResult : BOOLEAN]

\* oldCalendars ?? account.calendars ?? []
localCalendars ==
    IF params.oldCalendars # None THEN params.oldCalendars[1]
    ELSE IF params.accountCalendars # None THEN params.accountCalendars[1]
    ELSE << >>

\* a truthy ctag
TruthyCtag(c) == c # JsUndefined /\ c[2] # ""

\* the change test with `and` for `or`
isChanged_both(rc, cal) ==
    /\ ~FalsyField(rc.syncToken) /\ rc.syncToken # cal.syncToken
    /\ TruthyCtag(rc.ctag) /\ rc.ctag # cal.ctag

\* (rc.syncToken && rc.syncToken !== cal.syncToken) || (rc.ctag && rc.ctag !== cal.ctag)
isChanged(rc, cal) ==
    \/ ~FalsyField(rc.syncToken) /\ rc.syncToken # cal.syncToken
    \/ TruthyCtag(rc.ctag) /\ rc.ctag # cal.ctag

\* remoteCalendars.filter((rc) => localCalendars.every((lc) => !urlContains(lc.url, rc.url)))
createdCalendars(locals, remotes) ==
    SelectSeq(remotes, LAMBDA rc :
        \A i \in 1..Len(locals) : ~urlContains(locals[i].url, rc.url))

RECURSIVE updatedCalendars(_, _)
\* localCalendars.reduce((prev, curr) => ..., []) with find
updatedCalendars(locals, remotes) ==
    IF locals = << >> THEN << >>
    ELSE LET n == Len(locals)
             prev == updatedCalendars(SubSeq(locals, 1, n - 1), remotes)
             curr == locals[n]
             f == found(remotes, curr)
         IN  IF f # None /\ isChanged(f[1], curr) THEN Append(prev, f[1]) ELSE prev

\* localCalendars.filter((cal) => remoteCalendars.every((rc) => !urlContains(rc.url, cal.url)))
deletedCalendars(locals, remotes) ==
    SelectSeq(locals, LAMBDA cal :
        \A i \in 1..Len(remotes) : ~urlContains(remotes[i].url, cal.url))

\* localCalendars.filter((cal) => remoteCalendars.some((rc) =>
\*     urlContains(rc.url, cal.url) && (the change test)))
unchangedCalendars(locals, remotes) ==
    SelectSeq(locals, LAMBDA cal :
        \E i \in 1..Len(remotes) :
            urlContains(remotes[i].url, cal.url) /\ isChanged(remotes[i], cal))

calendarsDiff(locals, remotes) ==
    [created |-> createdCalendars(locals, remotes),
     updated |-> updatedCalendars(locals, remotes),
     deleted |-> deletedCalendars(locals, remotes),
     unchanged |-> unchangedCalendars(locals, remotes)]

\* { ...u, objectMultiGet: calendarMultiGet }, collection.objects ?? []
childCollection(u) == [u EXCEPT !.objects = << >>]

\* what the sync-collection REPORT of a child is answered with
ChildSyncWires ==
    { [ok |-> TRUE, status |-> MultiStatus, responses |-> r, syncToken |-> "t2"] :
        r \in { << >>, <<[href |-> UrlP, statusLine |-> NoStatusLine]>> } }

\* what calendarMultiGet of a child is answered with
ChildMultiGetAnswers ==
    { <<[href |-> UrlP, getetag |-> "a", calendarData |-> "new",
         addressData |-> Undefined]>> }

TransportError == [message |-> "fetch failed", fields |-> << >>]

\* a child promise: pending at one of its awaits, resolved or rejected;
\* settled is its place in the order in which the children settled, 0 while
\* it is pending
Child(state, u, res, value, settled) ==
    [state |-> state, collection |-> u, result |-> res, value |-> value,
     settled |-> settled]

\* the place the next child to settle takes
NextSettled == Cardinality({ i \in 1..Len(children) : children[i].settled # 0 }) + 1

AllResolved == \A i \in 1..Len(children) : children[i].state = "resolved"

\* Promise.all's value: the children's values in the order of the array
updatedWithObjects == [i \in 1..Len(children) |-> children[i].value[1]]

\* the TypeError of davRequest reading multistatus.response off a decoded
\* document that has no multistatus
DecodeError == [message |-> "TypeError", fields |-> << >>]
ChildErrors == {TransportError, DecodeError}

InitCalendars ==
    /\ pc = "called"
    /\ params \in SyncCalendarsParams
    /\ requests = << >>
    /\ wire = None
    /\ result = << >>
    /\ remote = None
    /\ diff = None
    /\ dirty = None
    /\ returned = None
    /\ error = None
    /\ children = << >>
    /\ newAccount = None

\* if (!account) throw
SyncCalendarsNoAccount ==
    /\ pc = "called"
    /\ ~account.present
    /\ error' = Some([message |-> "Must have account before syncCalendars",
                      fields |-> << >>])
    /\ pc' = "failed"
    /\ UNCHANGED <<params, requests, wire, result, remote, diff, dirty, returned,
                   children, newAccount>>

fetchCalendarsFields == <<"homeUrl", "rootUrl">>

\* fetchCalendars throws on an account without homeUrl or rootUrl
FetchCalendarsRejected ==
    /\ pc = "called"
    /\ account.present
    /\ ~hasFields(account, fetchCalendarsFields)
    /\ error' = Some([message |-> "account must have fields before fetchCalendars",
                      fields |-> findMissingFieldNames(account, fetchCalendarsFields)])
    /\ pc' = "failed"
    /\ UNCHANGED <<params, requests, wire, result, remote, diff, dirty, returned,
                   children, newAccount>>

\* fetchCalendars' PROPFIND on homeUrl goes out
StartFetchCalendars ==
    /\ pc = "called"
    /\ account.present
    /\ hasFields(account, fetchCalendarsFields)
    /\ requests' = Append(requests,
                     [op |-> "fetchCalendars", url |-> <<account.homeUrl>>,
                      syncToken |-> Undefined, objectUrls |-> << >>])
    /\ pc' = "awaitFetchCalendars"
    /\ UNCHANGED <<params, wire, result, remote, diff, dirty, returned, error,
                   children, newAccount>>

\* the transport fails fetchCalendars
FetchCalendarsFailed ==
    /\ pc = "awaitFetchCalendars"
    /\ error' = Some(TransportError)
    /\ pc' = "failed"
    /\ UNCHANGED <<params, requests, wire, result, remote, diff, dirty, returned,
                   children, newAccount>>

\* the requests the children send before their first await, in array order
childRequests(updatedCals) ==
    [i \in 1..Len(updatedCals) |->
        [op |-> "syncCollection", url |-> updatedCals[i].url,
         syncToken |-> updatedCals[i].syncToken, objectUrls |-> << >>]]

\* fetchCalendars answered: the diff is taken and one smartCollectionSync is
\* started per updated calendar; each runs to its first await, so every
\* sync-collection REPORT is out before syncCalendars awaits Promise.all.
FetchCalendarsAnswered ==
    /\ pc = "awaitFetchCalendars"
    /\ \E remotes \in SeqsUpTo(RemoteCalendars, MaxCalendars - Len(localCalendars)) :
         LET d == calendarsDiff(localCalendars, remotes)
         IN  /\ hasFields(account, requiredFields) \/ d.updated = << >>
             /\ remote' = Some(remotes)
             /\ diff' = Some(d)
             /\ children' = [i \in 1..Len(d.updated) |->
                                Child("awaitSyncCollection", d.updated[i], << >>, None, 0)]
             /\ requests' = requests \o childRequests(d.updated)
    /\ pc' = "awaitSyncs"
    /\ UNCHANGED <<params, wire, result, dirty, returned, error, newAccount>>

\* the account lacks accountType: every child throws at its account check,
\* Promise.all rejects with the first child's error
FetchCalendarsAnsweredChildrenThrow ==
    /\ pc = "awaitFetchCalendars"
    /\ \E remotes \in SeqsUpTo(RemoteCalendars, MaxCalendars - Len(localCalendars)) :
         LET d == calendarsDiff(localCalendars, remotes)
         IN  /\ ~hasFields(account, requiredFields)
             /\ d.updated # << >>
             /\ remote' = Some(remotes)
             /\ diff' = Some(d)
             /\ children' = [i \in 1..Len(d.updated) |->
                                Child("rejected", d.updated[i], << >>, None, i)]
    /\ error' = Some([message |-> "account must have fields before smartCollectionSync",
                      fields |-> findMissingFieldNames(account, requiredFields)])
    /\ pc' = "failed"
    /\ UNCHANGED <<params, requests, wire, result, dirty, returned, newAccount>>

\* the children are followed until syncCalendars settles
ChildrenRunning == pc = "awaitSyncs"

\* child i: the sync-collection answer names a changed object, calendarMultiGet
\* goes out
ChildSyncAnsweredMultiGet(i) ==
    /\ ChildrenRunning
    /\ children[i].state = "awaitSyncCollection"
    /\ \E w \in ChildSyncWires :
         LET u == children[i].collection
             res == davRequest(u.url, w)
             urls == changedObjectUrls(res, account)
         IN  /\ urls # << >>
             /\ children' = [children EXCEPT ![i] = Child("awaitMultiGet", u, res, None, 0)]
             /\ requests' = Append(requests,
                              [op |-> "objectMultiGet", url |-> u.url,
                               syncToken |-> Undefined, objectUrls |-> urls])
    /\ UNCHANGED <<pc, params, wire, result, remote, diff, dirty, returned, error,
                   newAccount>>

\* child i: no changed object, the child resolves
ChildSyncAnsweredNoMultiGet(i) ==
    /\ ChildrenRunning
    /\ children[i].state = "awaitSyncCollection"
    /\ \E w \in ChildSyncWires :
         LET u == children[i].collection
             c == childCollection(u)
             res == davRequest(u.url, w)
             d == webdavDiff(c, account, res, << >>)
         IN  /\ changedObjectUrls(res, account) = << >>
             /\ children' = [children EXCEPT ![i] =
                    Child("resolved", u, res, Some(webdavReturn(c, FALSE, res, d)), NextSettled)]
    /\ UNCHANGED <<pc, params, requests, wire, result, remote, diff, dirty, returned,
                   error, newAccount>>

\* child i: calendarMultiGet answered, the child resolves
ChildMultiGetAnswered(i) ==
    /\ ChildrenRunning
    /\ children[i].state = "awaitMultiGet"
    /\ \E answers \in ChildMultiGetAnswers :
         LET u == children[i].collection
             c == childCollection(u)
             res == children[i].result
             d == webdavDiff(c, account, res, remoteObjects(answers, account))
         IN  children' = [children EXCEPT ![i] =
                 Child("resolved", u, res, Some(webdavReturn(c, FALSE, res, d)), NextSettled)]
    /\ UNCHANGED <<pc, params, requests, wire, result, remote, diff, dirty, returned,
                   error, newAccount>>

\* child i: one of its requests fails and the child rejects; Promise.all
\* rejects with the first rejection, and syncCalendars with it
ChildFailed(i) ==
    /\ ChildrenRunning
    /\ children[i].state \in {"awaitSyncCollection", "awaitMultiGet"}
    /\ \E e \in ChildErrors :
         /\ children' = [children EXCEPT ![i] =
                Child("rejected", children[i].collection, children[i].result, None,
                      NextSettled)]
         /\ error' = Some(e)
    /\ pc' = "failed"
    /\ UNCHANGED <<params, requests, wire, result, remote, diff, dirty, returned,
                   newAccount>>

\* detailedResult ? { created, updated, deleted }
\*                : [...unchanged, ...created, ...updatedWithObjects]
syncCalendarsResult(detailedResult, d, synced) ==
    IF detailedResult THEN ObjectDiff(d.created, d.updated, d.deleted)
    ELSE ObjectList(d.unchanged \o d.created \o synced)

\* every child has resolved: Promise.all resolves and syncCalendars returns
SyncsResolved ==
    /\ pc = "awaitSyncs"
    /\ AllResolved
    /\ returned' = Some(syncCalendarsResult(params.detailedResult, diff[1],
                                            updatedWithObjects))
    /\ pc' = "done"
    /\ UNCHANGED <<params, requests, wire, result, remote, diff, dirty, error,
                   children, newAccount>>

NextCalendars ==
    \/ SyncCalendarsNoAccount
    \/ FetchCalendarsRejected
    \/ StartFetchCalendars
    \/ FetchCalendarsFailed
    \/ FetchCalendarsAnswered
    \/ FetchCalendarsAnsweredChildrenThrow
    \/ \E i \in 1..Len(children) : ChildSyncAnsweredMultiGet(i)
    \/ \E i \in 1..Len(children) : ChildSyncAnsweredNoMultiGet(i)
    \/ \E i \in 1..Len(children) : ChildMultiGetAnswered(i)
    \/ \E i \in 1..Len(children) : ChildFailed(i)
    \/ SyncsResolved

SpecCalendars == InitCalendars /\ [][NextCalendars]_vars

----------------------------------------------------------------------------
(* C11.                                                                    *)

RemoteCalendarList == remote[1]

\* the local calendars whose matching remote calendar has the same
\* syncToken and the same ctag
SameOnServer ==
    SelectSeq(localCalendars, LAMBDA cal :
        \E rc \in Range(RemoteCalendarList) :
            /\ urlContains(rc.url, cal.url)
            /\ rc.syncToken = cal.syncToken
            /\ rc.ctag = cal.ctag)

\* the remote calendars with no local match
NewOnServer ==
    SelectSeq(RemoteCalendarList, LAMBDA rc :
        \A lc \in Range(localCalendars) : ~urlContains(lc.url, rc.url))

\* C11: in non-detailed mode syncCalendars returns unchanged, created and
\* the synced changed calendars concatenated, unchanged being the local
\* calendars whose matching remote calendar has the same syncToken and ctag;
\* each calendar URL appears in the result once.
C11_NonDetailedResult ==
    (Done /\ ~params.detailedResult) =>
        /\ returned[1].list = SameOnServer \o NewOnServer \o updatedWithObjects
        /\ \A i, j \in 1..Len(returned[1].list) :
               i # j => returned[1].list[i].url # returned[1].list[j].url

----------------------------------------------------------------------------
(* C12.                                                                    *)

Settled(i) == children[i].state \in {"resolved", "rejected"}

\* the local calendars some remote calendar of the same URL differs from in
\* syncToken or ctag
DiffersOnServer ==
    SelectSeq(localCalendars, LAMBDA cal :
        \E rc \in Range(RemoteCalendarList) :
            /\ urlContains(rc.url, cal.url)
            /\ rc.syncToken # cal.syncToken \/ rc.ctag # cal.ctag)

\* the first remote calendar, in the order fetched, of the URL of cal
FirstRemote(cal) ==
    LET hits == { i \in 1..Len(RemoteCalendarList) :
                    urlContains(RemoteCalendarList[i].url, cal.url) }
    IN  RemoteCalendarList[CHOOSE i \in hits : \A j \in hits : i <= j]

\* the local calendars whose first remote match carries a syncToken that
\* differs or a ctag that differs
FirstRemoteDiffers ==
    SelectSeq(localCalendars, LAMBDA cal :
        /\ \E rc \in Range(RemoteCalendarList) : urlContains(rc.url, cal.url)
        /\ \/ /\ FirstRemote(cal).syncToken \notin {Undefined, ""}
              /\ FirstRemote(cal).syncToken # cal.syncToken
           \/ /\ FirstRemote(cal).ctag \notin {JsUndefined, JsString("")}
              /\ FirstRemote(cal).ctag # cal.ctag)

\* the sync-collection REPORTs in the log are those of the children, in
\* array order, each sent once
OneSyncPerChild ==
    /\ Cardinality(RequestsOf("syncCollection")) = Len(children)
    /\ \A k \in 1..Len(children) :
           /\ requests[k + 1].op = "syncCollection"
           /\ requests[k + 1].url = children[k].collection.url
           /\ requests[k + 1].syncToken = children[k].collection.syncToken

\* the synced calendars are the tail of the result, in array order
SyncedInArrayOrder ==
    LET l == returned[1].list
        n == Len(children)
    IN  /\ Len(l) >= n
        /\ \A k \in 1..n :
               /\ l[Len(l) - n + k] = children[k].value[1]
               /\ l[Len(l) - n + k].url = children[k].collection.url

\* C12 as claimed: one smartCollectionSync per calendar that differs on the
\* server in syncToken or ctag and none for the others, all started before
\* any completes; syncCalendars completes only after all of them have
\* completed, its result the same for every order of completion.
C12_ParallelSyncs ==
    remote # None =>
        /\ Len(children) = Len(DiffersOnServer)
        /\ \A k \in 1..Len(children) :
               urlContains(children[k].collection.url, DiffersOnServer[k].url)
        /\ hasFields(account, requiredFields) => OneSyncPerChild
        /\ pc \in {"done", "failed"} => \A i \in 1..Len(children) : Settled(i)
        /\ (Done /\ ~params.detailedResult) => SyncedInArrayOrder

\* C12 amended: one smartCollectionSync (method 'webdav') is started per
\* local calendar whose first remote match under urlContains carries a
\* syncToken that differs or a ctag that differs, on that remote calendar,
\* and none for the others; all are started before any completes;
\* syncCalendars resolves only after all of them have resolved, with their
\* results in array order whatever the order of completion; it rejects as
\* soon as the first of them rejects, the others possibly still pending.
C12_ParallelSyncsFailFast ==
    remote # None =>
        /\ Len(children) = Len(FirstRemoteDiffers)
        /\ \A k \in 1..Len(children) :
               children[k].collection = FirstRemote(FirstRemoteDiffers[k])
        /\ hasFields(account, requiredFields) => OneSyncPerChild
        /\ ~hasFields(account, requiredFields) => RequestsOf("syncCollection") = {}
        /\ pc = "awaitSyncs" => \A i \in 1..Len(children) : children[i].state # "rejected"
        /\ Done => \A i \in 1..Len(children) : children[i].state = "resolved"
        /\ (Done /\ ~params.detailedResult) => SyncedInArrayOrder
        /\ pc = "failed" =>
               /\ error # None
               /\ \E i \in 1..Len(children) : children[i].state = "rejected"
               /\ hasFields(account, requiredFields) =>
                      Cardinality({ i \in 1..Len(children) :
                                      children[i].state = "rejected" }) = 1

\* two calendars synced, the second completing before the first
C12_Witness ==
    /\ Done
    /\ ~params.detailedResult
    /\ Len(children) = 2
    /\ children[1].collection.url # children[2].collection.url
    /\ children[2].settled < children[1].settled
    /\ RequestsOf("objectMultiGet") # {}

----------------------------------------------------------------------------
(* C27.                                                                    *)

\* C27: the sync started for a changed calendar runs from the local
\* calendar's state: its sync-collection REPORT carries the syncToken the
\* local calendar holds, and the collection synced holds the local
\* calendar's objects.
C27_SyncFromLocalState ==
    (remote # None /\ hasFields(account, requiredFields)) =>
        \A k \in 1..Len(children) :
            LET lc == FirstRemoteDiffers[k]
            IN  /\ requests[k + 1].op = "syncCollection"
                /\ requests[k + 1].syncToken = lc.syncToken
                /\ childCollection(children[k].collection).objects = lc.objects.list

----------------------------------------------------------------------------
(* The transport: davRequest with its response envelopes, and the object   *)
(* requests createObject, updateObject and deleteObject.                   *)

OkStatus == 200
MovedPermanently == 301
Unauthorized == 401

StatusText(status) ==
    CASE status = OkStatus -> "OK"
      [] status = MultiStatus -> "Multi-Status"
      [] status = MovedPermanently -> "Moved Permanently"
      [] status = Unauthorized -> "Unauthorized"
      [] status = Forbidden -> "Forbidden"
      [] status = NotFound -> "Not Found"
      [] OTHER -> ""

\* Response.ok
StatusOk(status) == status >= 200 /\ status < 300

\* the prefix the built module puts before every URL it fetches
\* ("http://localhost:8001/")
PROXY_URL == <<"l", ":">>
\* a proxy prefix a caller configures
ProxyPrefix == <<"p", ":">>

PrincipalPath == <<"/", "p", "/">>
OtherPath == <<"/", "q", "/">>

\* a <response> element of a multistatus: its href, its status line (0 for
\* none), whether it has an <error> child, and the href of the one property
\* asked for (NoHref when the propstat does not carry it)
ResponseElements ==
    { [href |-> hp[1], statusLine |-> se[1], error |-> se[2], prop |-> hp[2]] :
        hp \in { <<PrincipalPath, OtherPath>>, <<OtherPath, PrincipalPath>>,
                 <<PrincipalPath, NoHref>> },
        se \in { <<NoStatusLine, FALSE>>, <<Unauthorized, TRUE>> } }

\* the decoded body: a multistatus with its <response> elements, or a
\* document (or an empty body) without a multistatus root
XmlBodies ==
    { [multistatus |-> TRUE, responses |-> r] : r \in SeqsUpTo(ResponseElements, MaxLocal) }
        \cup { [multistatus |-> FALSE, responses |-> << >>] }
TextBody == [multistatus |-> FALSE, responses |-> << >>]

\* what fetch resolves with for the URL fetched
HttpResponses(fetched) ==
    [ok : {TRUE}, status : {MultiStatus}, contentType : {"xml"}, url : {fetched},
     body : XmlBodies]
        \cup [ok : {TRUE}, status : {OkStatus}, contentType : {"html", Undefined},
              url : {fetched}, body : {TextBody}]
        \cup [ok : {FALSE}, status : {Unauthorized, NotFound},
              contentType : {"xml", "html"}, url : {fetched},
              body : {TextBody, [multistatus |-> TRUE, responses |-> << >>]}]

\* the answers to a PROPFIND with depth 0: at most the one resource asked about
DepthZeroResponses(fetched) ==
    { r \in HttpResponses(fetched) : Len(r.body.responses) <= 1 }

\* a DAVResponse: raw is the body text ("text"), the decoded tree ("tree")
\* or absent ("none"); the body is kept beside it
Envelope(href, ok, status, statusText, hasError, raw, content, prop) ==
    [href |-> href, ok |-> ok, status |-> status, statusText |-> statusText,
     error |-> hasError, raw |-> raw, body |-> content, prop |-> prop]

\* !davResponse.ok || !content-type includes 'xml' || !parseOutgoing
Degenerate(response, parseOutgoing) ==
    ~response.ok \/ response.contentType # "xml" \/ ~parseOutgoing

syntheticEnvelope(response) ==
    Envelope(response.url, response.ok, response.status, StatusText(response.status),
             FALSE, "text", response.body, NoHref)

\* the parsed envelope with ok taken from the transport
parsedEnvelope_okFromTransport(response, responseBody) ==
    Envelope(responseBody.href, response.ok,
             IF responseBody.statusLine # NoStatusLine THEN responseBody.statusLine
             ELSE response.status,
             IF responseBody.statusLine # NoStatusLine
             THEN StatusText(responseBody.statusLine) ELSE StatusText(response.status),
             responseBody.error, "tree", response.body, responseBody.prop)

\* responseBodies.map((responseBody) => ...) for a <response> element
parsedEnvelope(response, responseBody) ==
    Envelope(responseBody.href, ~responseBody.error,
             IF responseBody.statusLine # NoStatusLine THEN responseBody.statusLine
             ELSE response.status,
             IF responseBody.statusLine # NoStatusLine
             THEN StatusText(responseBody.statusLine) ELSE StatusText(response.status),
             responseBody.error, "tree", response.body, responseBody.prop)

\* the entry for a multistatus without <response>: status, statusText and ok
emptyEnvelope(response) ==
    Envelope(NoHref, response.ok, response.status, StatusText(response.status),
             FALSE, "none", response.body, NoHref)

\* result.multistatus.response throws when the document has no multistatus
Decodable(response) == response.body.multistatus

\* the array davRequest returns for a response it can map
davResponses(response, parseOutgoing) ==
    IF Degenerate(response, parseOutgoing) THEN << syntheticEnvelope(response) >>
    ELSE IF response.body.responses = << >> THEN << emptyEnvelope(response) >>
    ELSE [i \in 1..Len(response.body.responses) |->
             parsedEnvelope(response, response.body.responses[i])]

\* the calls of the transport: proxyUrl is the prefix the caller (or the
\* client the call goes through) is configured with, '' when there is none
RequestParams ==
    [op : {"davRequest"}, method : {"PROPFIND", "REPORT", "MKCOL", "MKCALENDAR"},
     url : {CollUrl}, proxyUrl : {Empty, ProxyPrefix}, parseOutgoing : BOOLEAN]
        \cup [op : {"createObject", "updateObject"}, method : {"PUT"},
              url : {UrlP}, proxyUrl : {Empty, ProxyPrefix}, parseOutgoing : {TRUE}]
        \cup [op : {"deleteObject"}, method : {"DELETE"},
              url : {UrlP}, proxyUrl : {Empty, ProxyPrefix}, parseOutgoing : {TRUE}]

InitRequest ==
    /\ pc = "called"
    /\ params \in RequestParams
    /\ requests = << >>
    /\ wire = None
    /\ result = << >>
    /\ remote = None
    /\ diff = None
    /\ dirty = None
    /\ returned = None
    /\ error = None
    /\ children = << >>
    /\ newAccount = None

\* the URL handed to fetch: __PROXY_URL__ + url
fetchTarget(url) == PROXY_URL \o url

\* davRequest: fetch(__PROXY_URL__ + url, { headers, body, method })
DavRequestSend ==
    /\ pc = "called"
    /\ params.op = "davRequest"
    /\ requests' = Append(requests,
                     [op |-> params.method, url |-> fetchTarget(params.url),
                      syncToken |-> Undefined, objectUrls |-> << >>])
    /\ pc' = "awaitFetch"
    /\ UNCHANGED <<params, wire, result, remote, diff, dirty, returned, error,
                   children, newAccount>>

\* createObject, updateObject, deleteObject: return fetch(__PROXY_URL__ + url, ...)
ObjectRequestSend ==
    /\ pc = "called"
    /\ params.op \in {"createObject", "updateObject", "deleteObject"}
    /\ requests' = Append(requests,
                     [op |-> params.method, url |-> fetchTarget(params.url),
                      syncToken |-> Undefined, objectUrls |-> << >>])
    /\ pc' = "awaitObjectFetch"
    /\ UNCHANGED <<params, wire, result, remote, diff, dirty, returned, error,
                   children, newAccount>>

\* the object requests resolve with the Response as it is, whatever its status
ObjectRequestAnswered ==
    /\ pc = "awaitObjectFetch"
    /\ \E response \in HttpResponses(requests[1].url) :
         /\ response.body = TextBody
         /\ wire' = Some(response)
         /\ returned' = Some(response)
    /\ pc' = "done"
    /\ UNCHANGED <<params, requests, result, remote, diff, dirty, error,
                   children, newAccount>>

\* fetch rejects: no response is delivered, the call rejects with it
FetchRejected ==
    /\ pc \in {"awaitFetch", "awaitObjectFetch"}
    /\ error' = Some(TransportError)
    /\ pc' = "failed"
    /\ UNCHANGED <<params, requests, wire, result, remote, diff, dirty, returned,
                   children, newAccount>>

\* davRequest: the response is delivered and mapped to DAVResponses
FetchAnswered ==
    /\ pc = "awaitFetch"
    /\ \E response \in HttpResponses(requests[1].url) :
         /\ Degenerate(response, params.parseOutgoing) \/ Decodable(response)
         /\ wire' = Some(response)
         /\ returned' = Some(davResponses(response, params.parseOutgoing))
    /\ pc' = "done"
    /\ UNCHANGED <<params, requests, result, remote, diff, dirty, error,
                   children, newAccount>>

\* davRequest: a 2xx XML response whose document has no multistatus:
\* result.multistatus.response throws a TypeError
FetchAnsweredNoMultistatus ==
    /\ pc = "awaitFetch"
    /\ \E response \in HttpResponses(requests[1].url) :
         /\ ~Degenerate(response, params.parseOutgoing)
         /\ ~Decodable(response)
         /\ wire' = Some(response)
    /\ error' = Some(DecodeError)
    /\ pc' = "failed"
    /\ UNCHANGED <<params, requests, result, remote, diff, dirty, returned,
                   children, newAccount>>

NextRequest ==
    \/ DavRequestSend
    \/ ObjectRequestSend
    \/ ObjectRequestAnswered
    \/ FetchRejected
    \/ FetchAnswered
    \/ FetchAnsweredNoMultistatus

SpecRequest == InitRequest /\ [][NextRequest]_vars

----------------------------------------------------------------------------
(* C24.                                                                    *)

----------------------------------------------------------------------------
(* C26.                                                                    *)

\* the hrefs the sync-collection answer reports as changed or deleted
ReportedHrefs == { result[i].href : i \in ChangedResponses \cup DeletedResponses }
\* the local objects no reported href is a URL of
Untouched ==
    { i \in 1..Len(collection.objects) :
        \A h \in ReportedHrefs : ~urlContains(collection.objects[i].url, h) }

\* C26: webdav strategy without detailedResult: every local object that the
\* sync-collection answer reports neither as changed nor as deleted is in
\* the returned objects with its url, etag and data; when the answer
\* reports nothing the returned objects are the input's.
C26_UntouchedObjectsKept ==
    (Done /\ Webdav /\ ~params.detailedResult) =>
        /\ \A i \in Untouched :
               \E j \in 1..Len(returned[1].objects.list) :
                   returned[1].objects.list[j] = collection.objects[i]
        /\ ReportedHrefs = {} => returned[1].objects.list = collection.objects

----------------------------------------------------------------------------
(* C28.                                                                    *)

\* isCollectionDirty called again by a caller that kept newCtag as the
\* collection's ctag, the server answering as before
dirtyAgain ==
    isCollectionDirty([collection EXCEPT !.ctag = dirty[1].newCtag],
                      ctagResponse(collection, wire[1])[1])

\* C28: once isCollectionDirty has answered with newCtag, a following
\* isCollectionDirty of a collection that keeps this ctag, against the same
\* getctag, answers isDirty = false.
C28_CtagRoundTrip ==
    (Basic /\ dirty # None) => ~dirtyAgain.isDirty

----------------------------------------------------------------------------
(* C30.                                                                    *)

\* the objects of the diff a changed href is reflected in
Reflected(h) ==
    \E o \in Range(diff[1].created) \cup Range(diff[1].updated)
                \cup Range(diff[1].unchanged) : urlContains(o.url, h)

\* C30: webdav strategy: when the returned syncToken differs from the
\* input's, every href the sync-collection answer reports as changed is the
\* URL of an object in created, updated or unchanged.
C30_TokenAdvancesWithChanges ==
    (Done /\ Webdav /\ returned[1].syncToken # collection.syncToken) =>
        \A i \in ChangedResponses : Reflected(result[i].href)

----------------------------------------------------------------------------
(* C17.                                                                    *)

\* no response of isCollectionDirty's PROPFIND has an href matching the
\* collection url
NoCtagMatch ==
    \A i \in 1..Len(wire[1]) : ~urlContains(collection.url, wire[1][i].href)

\* C17: in the basic strategy, when no response to isCollectionDirty's
\* PROPFIND has an href matching collection.url under urlContains,
\* smartCollectionSync fails with 'Collection does not exist on server',
\* returns nothing, and fetchObjects has not been called.
C17_CollectionNotFound ==
    (Basic /\ wire # None /\ NoCtagMatch) =>
        /\ pc = "failed"
        /\ error # None
        /\ error[1].message = "Collection does not exist on server"
        /\ returned = None
        /\ RequestsOf("fetchObjects") = {}
        /\ RequestsOf("isCollectionDirty") = {1}

\* the PROPFIND was answered with the ctag of another collection, for a
\* collection that has the fetchObjects hook
C17_Witness ==
    /\ Basic
    /\ pc = "failed"
    /\ collection.fetchObjects
    /\ wire # None
    /\ Len(wire[1]) = 1
    /\ wire[1][1].href = OtherCollUrl
    /\ error[1].message = "Collection does not exist on server"

----------------------------------------------------------------------------
(* C18.                                                                    *)

\* C18: for every HTTP response the transport delivers davRequest returns an
\* array of DAVResponse and never throws; for a non-2xx or non-XML response,
\* or with parseOutgoing = false, the array is the one synthetic envelope
\* with href = response.url, the transport's ok, status and statusText, and
\* raw = the body text.
C18_AlwaysAnArray ==
    (params.op = "davRequest" /\ wire # None) =>
        /\ pc = "done"
        /\ error = None
        /\ returned # None
        /\ (~StatusOk(wire[1].status) \/ wire[1].contentType # "xml"
                \/ ~params.parseOutgoing) =>
               /\ Len(returned[1]) = 1
               /\ returned[1][1].href = wire[1].url
               /\ returned[1][1].ok = wire[1].ok
               /\ returned[1][1].status = wire[1].status
               /\ returned[1][1].statusText = StatusText(wire[1].status)
               /\ returned[1][1].raw = "text"
               /\ returned[1][1].body = wire[1].body

----------------------------------------------------------------------------
(* C19.                                                                    *)

\* the <response> element envelope i was made from, None for a synthetic
\* envelope and for the entry of an empty multistatus
ElementOf(i) ==
    IF returned[1][i].raw = "tree" THEN Some(wire[1].body.responses[i]) ELSE None

StatusFromTransport ==
    \A i \in 1..Len(returned[1]) :
        (ElementOf(i) = None \/ ElementOf(i)[1].statusLine = NoStatusLine) =>
            returned[1][i].status = wire[1].status

\* C19 as claimed: for every envelope davRequest returns, parsed or
\* synthetic, ok holds iff error is absent; without a parsed status line the
\* status is the transport's.
C19_OkIffNoError ==
    (params.op = "davRequest" /\ Done) =>
        /\ \A i \in 1..Len(returned[1]) : returned[1][i].ok <=> ~returned[1][i].error
        /\ StatusFromTransport

\* C19 amended: for every envelope made from a <response> element ok holds
\* iff the element has no error; a synthetic envelope and the entry of an
\* empty multistatus carry no error and the transport's ok, which is false
\* for a non-2xx response; without a parsed status line the status is the
\* transport's.
C19_OkIffNoErrorParsed ==
    (params.op = "davRequest" /\ Done) =>
        /\ \A i \in 1..Len(returned[1]) :
               IF ElementOf(i) # None
               THEN /\ returned[1][i].ok <=> ~ElementOf(i)[1].error
                    /\ returned[1][i].error = ElementOf(i)[1].error
               ELSE /\ ~returned[1][i].error
                    /\ returned[1][i].ok = wire[1].ok
        /\ StatusFromTransport

\* a multistatus with an element that carries an error and a status line
\* and one that carries neither
C19_Witness ==
    /\ Done
    /\ params.op = "davRequest"
    /\ Len(returned[1]) = 2
    /\ returned[1][1].error /\ ~returned[1][1].ok
    /\ returned[1][1].status = Unauthorized
    /\ ~returned[1][2].error /\ returned[1][2].ok
    /\ returned[1][2].status = MultiStatus

----------------------------------------------------------------------------
(* C20.                                                                    *)

\* C20: every outbound request is sent to proxyUrl + url, proxyUrl being the
\* configured prefix, the empty string when none is configured.
C20_ProxyPrefix ==
    \A i \in 1..Len(requests) : requests[i].url = params.proxyUrl \o params.url

----------------------------------------------------------------------------
(* createAccount: serviceDiscovery, fetchPrincipalUrl, fetchHomeUrl, then  *)
(* the collections and their objects.                                      *)

\* An absolute URL is a host letter followed by a path.
Hosts == {"h", "g"}
DavPath == <<"/", "d", "a", "v", "/">>
\* a Location that new URL(location, endpoint) rejects
BadLocation == <<"h", "t", "t", "p", ":", "/", "/">>

\* new URL(s) succeeds
Parseable(s) == s # Empty /\ s # NoHref /\ s # BadLocation /\ Head(s) \in Hosts

\* new URL(s).href: a bare host gets the path /
urlHref(s) == IF Len(s) = 1 THEN s \o <<"/">> ELSE s

RECURSIVE Dir(_)
\* the URL up to its last /
Dir(s) == IF s = << >> \/ s[Len(s)] = "/" THEN s ELSE Dir(SubSeq(s, 1, Len(s) - 1))

\* new URL(ref, base).href for a usable ref: the base for '', the ref itself
\* when absolute, the base's host with the ref when it is a path, else the
\* ref beside the base's last segment
resolve(ref, base) ==
    IF ref = Empty THEN urlHref(base)
    ELSE IF Head(ref) \in Hosts THEN urlHref(ref)
    ELSE IF Head(ref) = "/" THEN <<Head(base)>> \o ref
    ELSE Dir(urlHref(base)) \o ref

\* new URL(`/.well-known/${accountType}`, endpoint).href
wellKnown(acct) == <<Head(acct.serverUrl), "/", ".well-known/", acct.accountType>>

CreateAccountParams ==
    [account : [serverUrl : {<<"h">>, <<"h", "/">>, Empty}, accountType : {"caldav", "carddav"},
                proxyUrl : {NoHref, ProxyPrefix}],
     loadCollections : BOOLEAN, loadObjects : BOOLEAN]

\* what the .well-known request ends with: fetch rejects, or a response with
\* its status and Location header (NoHref when it has none)
DiscoveryAnswers ==
    { [rejected |-> TRUE, status |-> 0, location |-> NoHref] }
        \cup [rejected : {FALSE}, status : {MovedPermanently},
              location : {NoHref, Empty, DavPath, BadLocation}]
        \cup [rejected : {FALSE}, status : {OkStatus},
              location : {NoHref, DavPath}]

\* serviceDiscovery with the redirect followed whatever the status
serviceDiscovery_anyStatus(acct, answer) ==
    IF /\ ~answer.rejected
       /\ answer.location \notin {NoHref, Empty, BadLocation}
    THEN resolve(answer.location, acct.serverUrl)
    ELSE urlHref(acct.serverUrl)

\* the try block: a 3xx with a non-empty Location that new URL accepts gives
\* the redirect target, everything else (a thrown error included) endpoint.href
serviceDiscovery(acct, answer) ==
    IF /\ ~answer.rejected
       /\ answer.status >= 300 /\ answer.status < 400
       /\ answer.location \notin {NoHref, Empty, BadLocation}
    THEN resolve(answer.location, acct.serverUrl)
    ELSE urlHref(acct.serverUrl)

\* the 401 test without the negation of ok
invalidCredentials_ok(response) == response.ok /\ response.status = Unauthorized

\* if (!response.ok) { if (response.status === 401) throw }
invalidCredentials(response) == ~response.ok /\ response.status = Unauthorized

\* response.props?.currentUserPrincipal?.href ?? ''
principalHref(response) == IF response.prop = NoHref THEN Empty ELSE response.prop

\* the first response, whatever its href
matched_first(responses, principalUrl) ==
    IF responses = << >> THEN None ELSE Some(responses[1])

\* responses.find((r) => urlContains(account.principalUrl, r.href))
matched(responses, principalUrl) ==
    LET hits == { i \in 1..Len(responses) : urlContains(principalUrl, responses[i].href) }
    IN  IF hits = {} THEN None
        ELSE Some(responses[CHOOSE i \in hits : \A j \in hits : i <= j])

\* matched.props?.calendarHomeSet.href throws when props is there without
\* the home set
HomeSetReadable(m) == m.raw # "tree" \/ m.prop # NoHref

\* collections are loaded also when only the objects are asked for: `and`
\* for `or`
wantsCollections_both(p) == p.loadCollections /\ p.loadObjects

\* if (loadCollections || loadObjects)
wantsCollections(p) == p.loadCollections \/ p.loadObjects

collectionsOp(acct) ==
    IF acct.accountType = "caldav" THEN "fetchCalendars" ELSE "fetchAddressBooks"
objectsOp(acct) ==
    IF acct.accountType = "caldav" THEN "fetchCalendarObjects" ELSE "fetchVCards"

Request(op, url) == [op |-> op, url |-> url, syncToken |-> Undefined, objectUrls |-> << >>]

\* an answer with the step it answers
Answer(step, a) == [to |-> step, answer |-> a]

InvalidUrl == [message |-> "Invalid URL", fields |-> << >>]

HomeSetError == [message |-> "TypeError: home set", fields |-> << >>]

\* the objects fetched for one collection
FetchedList == <<[url |-> UrlH, etag |-> "a", data |-> "new"]>>

InitAccount ==
    /\ pc = "called"
    /\ params \in CreateAccountParams
    /\ requests = << >>
    /\ wire = None
    /\ result = << >>
    /\ remote = None
    /\ diff = None
    /\ dirty = None
    /\ returned = None
    /\ error = None
    /\ children = << >>
    /\ newAccount = [rootUrl |-> NoHref, principalUrl |-> NoHref, homeUrl |-> NoHref,
                     collections |-> None]

\* serviceDiscovery: new URL(account.serverUrl) throws before the try block
ServiceDiscoveryThrows ==
    /\ pc = "called"
    /\ ~Parseable(account.serverUrl)
    /\ error' = Some(InvalidUrl)
    /\ pc' = "failed"
    /\ UNCHANGED <<params, requests, wire, result, remote, diff, dirty,
                   returned, children, newAccount>>

\* serviceDiscovery: fetch(account.proxyUrl + uri.href, { redirect: 'manual' })
ServiceDiscoverySend ==
    /\ pc = "called"
    /\ Parseable(account.serverUrl)
    /\ requests' = Append(requests,
                     Request("serviceDiscovery", account.proxyUrl \o wellKnown(account)))
    /\ pc' = "awaitServiceDiscovery"
    /\ UNCHANGED <<params, wire, result, remote, diff, dirty, returned,
                   error, children, newAccount>>

\* serviceDiscovery returns, whatever became of its request; rootUrl is set
\* and fetchPrincipalUrl's PROPFIND on it goes out
ServiceDiscoveryAnswered ==
    /\ pc = "awaitServiceDiscovery"
    /\ \E a \in DiscoveryAnswers :
         LET root == serviceDiscovery(account, a)
         IN  /\ wire' = Some(Answer("serviceDiscovery", a))
             /\ newAccount' = [newAccount EXCEPT !.rootUrl = root]
             /\ requests' = Append(requests,
                              Request("fetchPrincipalUrl", fetchTarget(root)))
    /\ pc' = "awaitPrincipalUrl"
    /\ UNCHANGED <<params, result, remote, diff, dirty, returned,
                   error, children>>

\* the transport fails one of the PROPFINDs: createAccount rejects
DiscoveryFetchRejected ==
    /\ pc \in {"awaitPrincipalUrl", "awaitHomeUrl", "awaitCollections"}
    /\ error' = Some(TransportError)
    /\ pc' = "failed"
    /\ UNCHANGED <<params, requests, wire, result, remote, diff, dirty,
                   returned, children, newAccount>>

\* a 2xx XML answer without multistatus: davRequest throws
DiscoveryAnsweredNoMultistatus ==
    /\ pc \in {"awaitPrincipalUrl", "awaitHomeUrl"}
    /\ \E response \in HttpResponses(requests[Len(requests)].url) :
         /\ ~Degenerate(response, TRUE)
         /\ ~Decodable(response)
         /\ wire' = Some(Answer(requests[Len(requests)].op, response))
    /\ error' = Some(DecodeError)
    /\ pc' = "failed"
    /\ UNCHANGED <<params, requests, result, remote, diff, dirty,
                   returned, children, newAccount>>

\* fetchPrincipalUrl: the first response is not ok with status 401
PrincipalAnsweredUnauthorized ==
    /\ pc = "awaitPrincipalUrl"
    /\ \E response \in DepthZeroResponses(requests[Len(requests)].url) :
         /\ Degenerate(response, TRUE) \/ Decodable(response)
         /\ invalidCredentials(davResponses(response, TRUE)[1])
         /\ wire' = Some(Answer("fetchPrincipalUrl", response))
    /\ error' = Some([message |-> "Invalid credentials", fields |-> << >>])
    /\ pc' = "failed"
    /\ UNCHANGED <<params, requests, result, remote, diff, dirty,
                   returned, children, newAccount>>

\* fetchPrincipalUrl returns the href resolved against rootUrl, and
\* fetchHomeUrl's PROPFIND on principalUrl goes out
PrincipalAnswered ==
    /\ pc = "awaitPrincipalUrl"
    /\ \E response \in DepthZeroResponses(requests[Len(requests)].url) :
         LET first == davResponses(response, TRUE)[1]
             principal == resolve(principalHref(first), newAccount.rootUrl)
         IN  /\ Degenerate(response, TRUE) \/ Decodable(response)
             /\ ~invalidCredentials(first)
             /\ wire' = Some(Answer("fetchPrincipalUrl", response))
             /\ newAccount' = [newAccount EXCEPT !.principalUrl = principal]
             /\ requests' = Append(requests,
                              Request("fetchHomeUrl", fetchTarget(principal)))
    /\ pc' = "awaitHomeUrl"
    /\ UNCHANGED <<params, result, remote, diff, dirty, returned,
                   error, children>>

\* fetchHomeUrl: no response matches principalUrl, or the match is not ok
HomeAnsweredNotFound ==
    /\ pc = "awaitHomeUrl"
    /\ \E response \in HttpResponses(requests[Len(requests)].url) :
         LET m == matched(davResponses(response, TRUE), newAccount.principalUrl)
         IN  /\ Degenerate(response, TRUE) \/ Decodable(response)
             /\ IF m = None THEN TRUE ELSE ~m[1].ok
             /\ wire' = Some(Answer("fetchHomeUrl", response))
    /\ error' = Some([message |-> "cannot find homeUrl", fields |-> << >>])
    /\ pc' = "failed"
    /\ UNCHANGED <<params, requests, result, remote, diff, dirty,
                   returned, children, newAccount>>

\* fetchHomeUrl: the match has props but no home set: reading its href throws
HomeAnsweredUnreadable ==
    /\ pc = "awaitHomeUrl"
    /\ \E response \in HttpResponses(requests[Len(requests)].url) :
         LET m == matched(davResponses(response, TRUE), newAccount.principalUrl)
         IN  /\ Degenerate(response, TRUE) \/ Decodable(response)
             /\ m # None /\ m[1].ok
             /\ ~HomeSetReadable(m[1])
             /\ wire' = Some(Answer("fetchHomeUrl", response))
    /\ error' = Some(HomeSetError)
    /\ pc' = "failed"
    /\ UNCHANGED <<params, requests, result, remote, diff, dirty,
                   returned, children, newAccount>>

\* fetchHomeUrl returns the home set href of the match, resolved against
\* rootUrl; the collections are fetched next when asked for
HomeAnsweredLoad ==
    /\ pc = "awaitHomeUrl"
    /\ wantsCollections(params)
    /\ \E response \in HttpResponses(requests[Len(requests)].url) :
         LET m == matched(davResponses(response, TRUE), newAccount.principalUrl)
             home == resolve(m[1].prop, newAccount.rootUrl)
         IN  /\ Degenerate(response, TRUE) \/ Decodable(response)
             /\ m # None /\ m[1].ok
             /\ HomeSetReadable(m[1])
             /\ wire' = Some(Answer("fetchHomeUrl", response))
             /\ newAccount' = [newAccount EXCEPT !.homeUrl = home]
             /\ requests' = Append(requests,
                              Request(collectionsOp(account), fetchTarget(home)))
    /\ pc' = "awaitCollections"
    /\ UNCHANGED <<params, result, remote, diff, dirty, returned,
                   error, children>>

\* ... and createAccount returns when they are not
HomeAnsweredDone ==
    /\ pc = "awaitHomeUrl"
    /\ ~wantsCollections(params)
    /\ \E response \in HttpResponses(requests[Len(requests)].url) :
         LET m == matched(davResponses(response, TRUE), newAccount.principalUrl)
             home == resolve(m[1].prop, newAccount.rootUrl)
         IN  /\ Degenerate(response, TRUE) \/ Decodable(response)
             /\ m # None /\ m[1].ok
             /\ HomeSetReadable(m[1])
             /\ wire' = Some(Answer("fetchHomeUrl", response))
             /\ newAccount' = [newAccount EXCEPT !.homeUrl = home]
             /\ returned' = Some([newAccount EXCEPT !.homeUrl = home])
    /\ pc' = "done"
    /\ UNCHANGED <<params, requests, result, remote, diff, dirty,
                   error, children>>

CollectionUrls == SeqsUpTo({CalA, CalB}, MaxLocal)

\* the collections are there and their objects are asked for: one fetch per
\* collection is started, each running to its first request
CollectionsAnsweredLoadObjects ==
    /\ pc = "awaitCollections"
    /\ params.loadObjects
    /\ \E colls \in CollectionUrls :
         /\ newAccount' = [newAccount EXCEPT !.collections = Some(colls)]
         /\ children' = [i \in 1..Len(colls) |->
                            Child("awaitObjects", colls[i], << >>, None, 0)]
         /\ requests' = requests \o
                [i \in 1..Len(colls) |-> Request(objectsOp(account), fetchTarget(colls[i]))]
    /\ pc' = "awaitObjects"
    /\ UNCHANGED <<params, wire, result, remote, diff, dirty, returned, error>>

\* the collections are there and no objects are asked for
CollectionsAnsweredDone ==
    /\ pc = "awaitCollections"
    /\ ~params.loadObjects
    /\ \E colls \in CollectionUrls :
         /\ newAccount' = [newAccount EXCEPT !.collections = Some(colls)]
         /\ returned' = Some([newAccount EXCEPT !.collections = Some(colls)])
    /\ pc' = "done"
    /\ UNCHANGED <<params, requests, wire, result, remote, diff,
                   dirty, error, children>>

\* the objects of collection i are there
ObjectsAnswered(i) ==
    /\ pc = "awaitObjects"
    /\ children[i].state = "awaitObjects"
    /\ children' = [children EXCEPT ![i] =
           Child("resolved", children[i].collection, << >>, Some(FetchedList), NextSettled)]
    /\ UNCHANGED <<pc, params, requests, wire, result, remote, diff,
                   dirty, returned, error, newAccount>>

\* the fetch of the objects of collection i fails: Promise.all rejects
ObjectsFailed(i) ==
    /\ pc = "awaitObjects"
    /\ children[i].state = "awaitObjects"
    /\ children' = [children EXCEPT ![i] =
           Child("rejected", children[i].collection, << >>, None, NextSettled)]
    /\ error' = Some(TransportError)
    /\ pc' = "failed"
    /\ UNCHANGED <<params, requests, wire, result, remote, diff,
                   dirty, returned, newAccount>>

\* every collection has its objects: createAccount returns
ObjectsResolved ==
    /\ pc = "awaitObjects"
    /\ AllResolved
    /\ returned' = Some(newAccount)
    /\ pc' = "done"
    /\ UNCHANGED <<params, requests, wire, result, remote, diff, dirty,
                   error, children, newAccount>>

NextAccount ==
    \/ ServiceDiscoveryThrows
    \/ ServiceDiscoverySend
    \/ ServiceDiscoveryAnswered
    \/ DiscoveryFetchRejected
    \/ DiscoveryAnsweredNoMultistatus
    \/ PrincipalAnsweredUnauthorized
    \/ PrincipalAnswered
    \/ HomeAnsweredNotFound
    \/ HomeAnsweredUnreadable
    \/ HomeAnsweredLoad
    \/ HomeAnsweredDone
    \/ CollectionsAnsweredLoadObjects
    \/ CollectionsAnsweredDone
    \/ \E i \in 1..Len(children) : ObjectsAnswered(i)
    \/ \E i \in 1..Len(children) : ObjectsFailed(i)
    \/ ObjectsResolved

SpecAccount == InitAccount /\ [][NextAccount]_vars

-----------------------------------------------------------------------------
(* createAccount: the order of discovery, and what each step does with its    *)
(* answer.                                                                    *)

RequestsAmong(ops) == UNION { RequestsOf(op) : op \in ops }
CollectionOps == {"fetchCalendars", "fetchAddressBooks"}
ObjectOps == {"fetchCalendarObjects", "fetchVCards"}
\* the answer delivered last was the one to step
Answered(step) == wire # None /\ wire[1].to = step

\* C13: createAccount's requests go out in the order serviceDiscovery,
\* fetchPrincipalUrl, fetchHomeUrl, collections, objects; each is issued
\* only when the product of the step before is known, and on that product;
\* an account returned with loadObjects (or loadCollections) has its
\* collections, and one objects fetch per collection was issued after the
\* collections fetch.
C13_SequentialDiscovery ==
    /\ RequestsOf("serviceDiscovery") \subseteq {1}
    /\ \A i \in RequestsOf("fetchPrincipalUrl") :
         /\ i = 2 /\ requests[1].op = "serviceDiscovery"
         /\ newAccount.rootUrl # NoHref
         /\ requests[i].url = fetchTarget(newAccount.rootUrl)
    /\ \A i \in RequestsOf("fetchHomeUrl") :
         /\ i = 3 /\ requests[2].op = "fetchPrincipalUrl"
         /\ newAccount.principalUrl # NoHref
         /\ requests[i].url = fetchTarget(newAccount.principalUrl)
    /\ \A i \in RequestsAmong(CollectionOps) :
         /\ i = 4 /\ requests[3].op = "fetchHomeUrl"
         /\ newAccount.homeUrl # NoHref
         /\ requests[i].url = fetchTarget(newAccount.homeUrl)
    /\ \A i \in RequestsAmong(ObjectOps) :
         /\ i > 4 /\ requests[4].op \in CollectionOps
         /\ newAccount.collections # None
         /\ i - 4 <= Len(newAccount.collections[1])
         /\ requests[i].url = fetchTarget(newAccount.collections[1][i - 4])
    /\ pc = "done" /\ (params.loadObjects \/ params.loadCollections)
         => /\ newAccount.collections # None
            /\ RequestsAmong(CollectionOps) = {4}
    /\ pc = "done" /\ params.loadObjects
         => RequestsAmong(ObjectOps) = 5..(4 + Len(newAccount.collections[1]))

\* an account returned with the objects of two collections, asked for with
\* loadObjects alone, the three discovery products all different
C13_Witness ==
    /\ pc = "done"
    /\ params.loadObjects /\ ~params.loadCollections
    /\ newAccount.collections # None
    /\ Len(newAccount.collections[1]) = 2
    /\ Len(requests) = 6
    /\ newAccount.rootUrl # newAccount.principalUrl
    /\ newAccount.principalUrl # newAccount.homeUrl
    /\ newAccount.homeUrl # newAccount.rootUrl

\* the well-known request failed in one of the ways named: a transport
\* error, a status that is no redirect, a redirect without Location, a
\* Location that is no URL
DiscoveryFailure(a) ==
    \/ a.rejected
    \/ a.status < 300 \/ a.status >= 400
    \/ a.location \in {NoHref, Empty, BadLocation}

C15_InvalidCredentials ==
    Answered("fetchPrincipalUrl") /\ wire[1].answer.status = Unauthorized
        => /\ pc = "failed"
           /\ error # None /\ error[1].message = "Invalid credentials"
           /\ Len(requests) = 2
           /\ requests[2].op = "fetchPrincipalUrl"
           /\ newAccount.principalUrl = NoHref

C15_Witness ==
    /\ pc = "failed"
    /\ Answered("fetchPrincipalUrl")
    /\ wire[1].answer.status = Unauthorized
    /\ error[1].message = "Invalid credentials"

\* the responses davRequest hands to fetchHomeUrl, and those of them whose
\* href matches principalUrl
HomeResponses == davResponses(wire[1].answer, TRUE)
HomeMatches ==
    { i \in 1..Len(HomeResponses) :
        urlContains(newAccount.principalUrl, HomeResponses[i].href) }
HomeDelivered ==
    /\ Answered("fetchHomeUrl")
    /\ Degenerate(wire[1].answer, TRUE) \/ Decodable(wire[1].answer)

\* C16: when no response to fetchHomeUrl's PROPFIND has an href matching
\* principalUrl, createAccount fails with 'cannot find homeUrl'; a home URL
\* that is set is the home set of a response whose href matches
\* principalUrl, resolved against rootUrl.
C16_HomeFromMatch ==
    HomeDelivered
        => /\ HomeMatches = {}
                => /\ pc = "failed"
                   /\ error # None /\ error[1].message = "cannot find homeUrl"
           /\ newAccount.homeUrl # NoHref
                => \E i \in HomeMatches :
                      newAccount.homeUrl =
                          resolve(HomeResponses[i].prop, newAccount.rootUrl)

\* two responses, the first of another resource: the home URL is the
\* second's, and differs from what the first would give
C16_Witness ==
    /\ HomeDelivered
    /\ Len(HomeResponses) = 2
    /\ HomeMatches = {2}
    /\ HomeResponses[1].prop # NoHref
    /\ newAccount.homeUrl = resolve(HomeResponses[2].prop, newAccount.rootUrl)
    /\ newAccount.homeUrl # resolve(HomeResponses[1].prop, newAccount.rootUrl)

-----------------------------------------------------------------------------
(* getOauthHeaders with fetchOauthTokens and refreshAccessToken.  params    *)
(* holds the credentials and the reading of Date.now() at the call.         *)

\* the credentials a caller can hold; the client id stands for clientId,
\* clientSecret and redirectUrl, which are tested alike
OauthCredentials ==
    [refreshToken : {Undefined, "r1"}, accessToken : {Undefined, "a1"},
     expiration : {None} \cup { Some(t) : t \in 1..MaxClock },
     authorizationCode : {Undefined, "code"}, clientId : {Undefined, "id"},
     clientSecret : {"secret"}, redirectUrl : {"redirect"},
     tokenUrl : {Undefined, "tokenUrl"}]

OauthParams == [credentials : OauthCredentials, now : 1..MaxClock]

credentials == params.credentials

fetchFields ==
    <<"authorizationCode", "redirectUrl", "clientId", "clientSecret", "tokenUrl">>
refreshFields == <<"refreshToken", "clientId", "clientSecret", "tokenUrl">>

\* the test with >= for >
expired_atExpiration(c, now) ==
    now >= (IF c.expiration = None THEN 0 ELSE c.expiration[1])

\* Date.now() > (credentials.expiration ?? 0)
expired(c, now) == now > (IF c.expiration = None THEN 0 ELSE c.expiration[1])

\* (credentials.refreshToken && !credentials.accessToken) || expired
needsRefresh(c, now) ==
    (~FalsyField(c.refreshToken) /\ FalsyField(c.accessToken)) \/ expired(c, now)

\* what response.json() gives; {} is the record of undefined fields
NoTokens == [access_token |-> Undefined, refresh_token |-> Undefined]
TokenSets ==
    { [access_token |-> "a2", refresh_token |-> "r2"],
      [access_token |-> "a2", refresh_token |-> Undefined] }

\* the token endpoint's answers
TokenAnswers ==
    [ok : {TRUE}, status : {OkStatus}, tokens : TokenSets]
        \cup [ok : {FALSE}, status : {Unauthorized, NotFound}, tokens : {NoTokens}]

\* `Bearer ${tokens.access_token}`
Bearer(token) == <<"Bearer ", token>>

\* { tokens, headers: { authorization } }
oauthHeaders(tokens) ==
    [tokens |-> tokens, headers |-> [authorization |-> Bearer(tokens.access_token)]]

\* fetch(credentials.tokenUrl, { method: 'POST', body: grant_type=... })
TokenPost(c, grant) ==
    [op |-> "POST", url |-> c.tokenUrl, grant |-> grant,
     code |-> IF grant = "authorization_code" THEN c.authorizationCode ELSE Undefined,
     refreshToken |-> IF grant = "refresh_token" THEN c.refreshToken ELSE Undefined]

MissingCredentials(c, fields) ==
    [message |-> "Oauth credentials missing", fields |-> findMissingFieldNames(c, fields)]

InitOauth ==
    /\ pc = "called"
    /\ params \in OauthParams
    /\ requests = << >>
    /\ wire = None
    /\ result = << >>
    /\ remote = None
    /\ diff = None
    /\ dirty = None
    /\ returned = None
    /\ error = None
    /\ children = << >>
    /\ newAccount = None

\* no refreshToken: fetchOauthTokens, which throws on a missing field
FetchTokensMissingFields ==
    /\ pc = "called"
    /\ FalsyField(credentials.refreshToken)
    /\ ~hasFields(credentials, fetchFields)
    /\ error' = Some(MissingCredentials(credentials, fetchFields))
    /\ pc' = "failed"
    /\ UNCHANGED <<params, requests, wire, result, remote, diff, dirty,
                   returned, children, newAccount>>

\* no refreshToken: fetchOauthTokens posts the authorization_code grant
FetchTokensSend ==
    /\ pc = "called"
    /\ FalsyField(credentials.refreshToken)
    /\ hasFields(credentials, fetchFields)
    /\ requests' = Append(requests, TokenPost(credentials, "authorization_code"))
    /\ pc' = "awaitTokens"
    /\ UNCHANGED <<params, wire, result, remote, diff, dirty, returned,
                   error, children, newAccount>>

\* a refreshToken, and no accessToken or an expired one: refreshAccessToken,
\* which throws on a missing field
RefreshMissingFields ==
    /\ pc = "called"
    /\ ~FalsyField(credentials.refreshToken)
    /\ needsRefresh(credentials, params.now)
    /\ ~hasFields(credentials, refreshFields)
    /\ error' = Some(MissingCredentials(credentials, refreshFields))
    /\ pc' = "failed"
    /\ UNCHANGED <<params, requests, wire, result, remote, diff, dirty,
                   returned, children, newAccount>>

\* ... and posts the refresh_token grant
RefreshSend ==
    /\ pc = "called"
    /\ ~FalsyField(credentials.refreshToken)
    /\ needsRefresh(credentials, params.now)
    /\ hasFields(credentials, refreshFields)
    /\ requests' = Append(requests, TokenPost(credentials, "refresh_token"))
    /\ pc' = "awaitTokens"
    /\ UNCHANGED <<params, wire, result, remote, diff, dirty, returned,
                   error, children, newAccount>>

\* neither branch: tokens stays {} and the headers are made from it
NoTokenRequest ==
    /\ pc = "called"
    /\ ~FalsyField(credentials.refreshToken)
    /\ ~needsRefresh(credentials, params.now)
    /\ returned' = Some(oauthHeaders(NoTokens))
    /\ pc' = "done"
    /\ UNCHANGED <<params, requests, wire, result, remote, diff, dirty,
                   error, children, newAccount>>

\* the token endpoint answers: the tokens of a 2xx answer, {} for any other
TokensAnswered ==
    /\ pc = "awaitTokens"
    /\ \E answer \in TokenAnswers :
         /\ wire' = Some(answer)
         /\ returned' = Some(oauthHeaders(IF answer.ok THEN answer.tokens ELSE NoTokens))
    /\ pc' = "done"
    /\ UNCHANGED <<params, requests, result, remote, diff, dirty,
                   error, children, newAccount>>

\* fetch rejects: the header request rejects with it
TokenFetchRejected ==
    /\ pc = "awaitTokens"
    /\ error' = Some(TransportError)
    /\ pc' = "failed"
    /\ UNCHANGED <<params, requests, wire, result, remote, diff, dirty,
                   returned, children, newAccount>>

NextOauth ==
    \/ FetchTokensMissingFields
    \/ FetchTokensSend
    \/ RefreshMissingFields
    \/ RefreshSend
    \/ NoTokenRequest
    \/ TokensAnswered
    \/ TokenFetchRejected

SpecOauth == InitOauth /\ [][NextOauth]_vars

-----------------------------------------------------------------------------
(* C21, C22, C23.                                                           *)

Posted(grant) == \E i \in 1..Len(requests) : requests[i].grant = grant
HoldsRefreshToken == ~FalsyField(credentials.refreshToken)
HoldsAccessToken == ~FalsyField(credentials.accessToken)
\* the clock is past the expiration held
PastExpiration ==
    credentials.expiration # None /\ params.now > credentials.expiration[1]
\* ... an expiration that is not held counting as 0
PastExpirationOrNone ==
    credentials.expiration = None \/ params.now > credentials.expiration[1]

\* C21 as stated: once getOauthHeaders has chosen, an authorization_code
\* grant has been posted iff no refreshToken is held, a refresh_token grant
\* iff a refreshToken is held and the accessToken is missing or the clock is
\* past the expiration, and nothing is posted otherwise.
C21_GrantSelection ==
    pc # "called" =>
        /\ Posted("authorization_code") <=> ~HoldsRefreshToken
        /\ Posted("refresh_token")
              <=> HoldsRefreshToken /\ (~HoldsAccessToken \/ PastExpiration)
        /\ Len(requests) <= 1

\* C21: the same with the fields each grant needs: the grant is posted iff
\* its condition holds and the credentials hold its fields; with a field
\* missing the header request fails with 'Oauth credentials missing' and
\* nothing is posted; an expiration that is not held counts as passed.
C21_GrantSelectionWithFields ==
    pc # "called" =>
        /\ Posted("authorization_code")
              <=> ~HoldsRefreshToken /\ hasFields(credentials, fetchFields)
        /\ Posted("refresh_token")
              <=> /\ HoldsRefreshToken
                  /\ ~HoldsAccessToken \/ PastExpirationOrNone
                  /\ hasFields(credentials, refreshFields)
        /\ Len(requests) <= 1
        /\ (~HoldsRefreshToken /\ ~hasFields(credentials, fetchFields))
              => /\ pc = "failed" /\ requests = << >>
                 /\ error[1].message = "Oauth credentials missing"
        /\ (/\ HoldsRefreshToken
            /\ ~HoldsAccessToken \/ PastExpirationOrNone
            /\ ~hasFields(credentials, refreshFields))
              => /\ pc = "failed" /\ requests = << >>
                 /\ error[1].message = "Oauth credentials missing"

\* a held access token that has expired was refreshed
C21_Witness ==
    /\ pc = "done"
    /\ HoldsRefreshToken /\ HoldsAccessToken
    /\ PastExpiration
    /\ Posted("refresh_token")
    /\ wire # None /\ wire[1].ok

\* C22: with a refreshToken and an accessToken that has not expired, the
\* header request posts nothing and returns the Authorization header
\* 'Bearer ' followed by the accessToken held.
C22_ReuseHeldToken ==
    (pc # "called" /\ HoldsRefreshToken /\ HoldsAccessToken
        /\ credentials.expiration # None /\ params.now <= credentials.expiration[1])
        => /\ pc = "done"
           /\ requests = << >>
           /\ returned[1].headers.authorization = Bearer(credentials.accessToken)

\* C23: when the token endpoint answers with a non-2xx status, the header
\* request fails with an error and returns no Authorization header.
C23_OAuthFetchFailed ==
    (wire # None /\ ~StatusOk(wire[1].status))
        => /\ pc = "failed"
           /\ error # None
           /\ returned = None

-----------------------------------------------------------------------------
(* urlContains called on its own: params holds the two arguments.           *)

\* undefined, and the strings of spaces, slashes and one other character
UrlStrings == {NoHref} \cup SeqsUpTo({" ", "/", "x"}, MaxUrlLen)

InitUrl ==
    /\ pc = "called"
    /\ params \in [urlA : UrlStrings, urlB : UrlStrings]
    /\ requests = << >>
    /\ wire = None
    /\ result = << >>
    /\ remote = None
    /\ diff = None
    /\ dirty = None
    /\ returned = None
    /\ error = None
    /\ children = << >>
    /\ newAccount = None

UrlContainsReturns ==
    /\ pc = "called"
    /\ returned' = Some(urlContains(params.urlA, params.urlB))
    /\ pc' = "done"
    /\ UNCHANGED <<params, requests, wire, result, remote, diff, dirty, error,
                   children, newAccount>>

NextUrl == UrlContainsReturns

SpecUrl == InitUrl /\ [][NextUrl]_vars

-----------------------------------------------------------------------------
(* C25.                                                                     *)

\* the two strings differ only by one trailing '/', or only by leading and
\* trailing whitespace
DifferBySlash(a, b) == a = b \o <<"/">> \/ b = a \o <<"/">>
DifferBySpace(a, b) == Trim(a) = Trim(b)
SameUpToSlashOrSpace(a, b) ==
    /\ a # NoHref /\ b # NoHref
    /\ a = b \/ DifferBySlash(a, b) \/ DifferBySpace(a, b)

\* the answer to the call with its arguments exchanged
Exchanged == urlContains(params.urlB, params.urlA)

\* C25 as stated: urlContains(a, b) = urlContains(b, a) for all a and b, and
\* urlContains(a, b) holds whenever a and b differ only by one trailing '/'
\* or by leading or trailing whitespace.
C25_SymmetricReflexive ==
    pc = "done" =>
        /\ returned[1] = Exchanged
        /\ SameUpToSlashOrSpace(params.urlA, params.urlB) => returned[1]

\* C25: the same for two strings that are not empty; of '' and '/', and of
\* '' and a string of whitespace, urlContains is false.
C25_SymmetricReflexiveNonEmpty ==
    pc = "done" =>
        /\ returned[1] = Exchanged
        /\ (/\ SameUpToSlashOrSpace(params.urlA, params.urlB)
            /\ params.urlA # Empty /\ params.urlB # Empty) => returned[1]
        /\ (/\ SameUpToSlashOrSpace(params.urlA, params.urlB)
            /\ params.urlA # params.urlB
            /\ params.urlA = Empty \/ params.urlB = Empty) => ~returned[1]

\* a URL with a trailing '/' and whitespace around it against the bare one
C25_Witness ==
    /\ pc = "done"
    /\ params.urlA = <<" ", "x", "/">>
    /\ params.urlB = <<"x", " ">>
    /\ returned[1]

----------------------------------------------------------------------------
(* The client facade (createDAVClient, DAVClient): params holds the method *)
(* called, the client's authMethod and the headers the caller passes.      *)

HeaderNames == {"authorization", "x-caller"}
\* a headers object: the value of each header, Undefined when it has none
NoHeaders == [n \in HeaderNames |-> Undefined]
CallerHeaders ==
    [HeaderNames -> {Undefined, "v"}]

\* authHeaders of the client, by authMethod
authHeaders(authMethod) ==
    CASE authMethod = "Basic" -> [NoHeaders EXCEPT !["authorization"] = "Basic dTpw"]
      [] authMethod = "Oauth" -> [NoHeaders EXCEPT !["authorization"] = "Bearer a1"]
      [] OTHER -> NoHeaders

\* { ...authHeaders, ...headers }
spreadHeaders(auth, headers) ==
    [n \in HeaderNames |-> IF headers[n] # Undefined THEN headers[n] ELSE auth[n]]

\* defaultParam(fn, {headers: authHeaders}): Object.assign({}, params, args[0])
\* takes the whole headers property of the argument when it has one, also
\* when its value is undefined
defaultParam(auth, given, headers) ==
    CASE given = "absent" -> auth
      [] given = "undefined" -> NoHeaders
      [] OTHER -> headers

\* the methods that spread the two headers objects, and those built with
\* defaultParam
SpreadingMethods == {"davRequest", "createAccount"}
DefaultParamMethods == {"propfind", "createObject", "syncCollection", "fetchCalendars"}

ClientParams ==
    { p \in [method : SpreadingMethods \cup DefaultParamMethods,
             authMethod : {"Basic", "Oauth", Undefined},
             given : {"absent", "undefined", "object"},
             headers : CallerHeaders] :
        p.given # "object" => p.headers = NoHeaders }

InitClient ==
    /\ pc = "called"
    /\ params \in ClientParams
    /\ requests = << >>
    /\ wire = None
    /\ result = << >>
    /\ remote = None
    /\ diff = None
    /\ dirty = None
    /\ returned = None
    /\ error = None
    /\ children = << >>
    /\ newAccount = None

\* davRequest, createAccount: headers: { ...authHeaders, ...headers }
SpreadingCall ==
    /\ pc = "called"
    /\ params.method \in SpreadingMethods
    /\ requests' = <<[op |-> params.method,
                      headers |-> spreadHeaders(authHeaders(params.authMethod),
                                                params.headers)]>>
    /\ pc' = "awaitAnswer"
    /\ UNCHANGED <<params, wire, result, remote, diff, dirty, returned, error,
                   children, newAccount>>

\* propfind, createObject, ...: defaultParam(raw, { headers: authHeaders })
DefaultParamCall ==
    /\ pc = "called"
    /\ params.method \in DefaultParamMethods
    /\ requests' = <<[op |-> params.method,
                      headers |-> defaultParam(authHeaders(params.authMethod),
                                               params.given, params.headers)]>>
    /\ pc' = "awaitAnswer"
    /\ UNCHANGED <<params, wire, result, remote, diff, dirty, returned, error,
                   children, newAccount>>

\* the server answers the request
ClientAnswered ==
    /\ pc = "awaitAnswer"
    /\ \E status \in {OkStatus, Unauthorized} : wire' = Some(status)
    /\ returned' = wire'
    /\ pc' = "done"
    /\ UNCHANGED <<params, requests, result, remote, diff, dirty, error,
                   children, newAccount>>

NextClient == SpreadingCall \/ DefaultParamCall \/ ClientAnswered

SpecClient == InitClient /\ [][NextClient]_vars

----------------------------------------------------------------------------
(* C29.                                                                    *)

\* C29: every request a facade method sends carries each of the client's
\* auth headers, and its headers are the caller's headers merged over the
\* auth headers, also when the caller passes headers of its own.
C29_AuthHeadersCarried ==
    \A i \in 1..Len(requests) :
        /\ \A n \in HeaderNames :
               authHeaders(params.authMethod)[n] # Undefined
                   => requests[i].headers[n] # Undefined
        /\ requests[i].headers =
               spreadHeaders(authHeaders(params.authMethod), params.headers)

====
